---- MODULE Spec2Model ----
(***************************************************************************)
(* Emotion fusion and temporal smoothing engine.                           *)
(*                                                                         *)
(*   FacialEmotionDetector   (services/facialEmotionDetector.ts)           *)
(*   MultiModalEmotionContext (services/multiModalEmotionContext.ts)       *)
(*                                                                         *)
(* Numbers.  The code computes with IEEE 754 doubles, and so does the      *)
(* model: a probability, weight, score or confidence is a double, held as  *)
(* the decimal it stands for (in units of 1/Scale) together with the       *)
(* rounding error it carries, and every sum and quotient is the exact      *)
(* result rounded to the nearest double.  Scale is a multiple of every     *)
(* divisor the code can use (the sums of the channel weights in tenths,    *)
(* and the window counts 1..10), so the decimal part of every quotient is  *)
(* a whole number of units.  Clock readings, durations and lengths are     *)
(* whole numbers and are held as such.                                     *)
(*                                                                         *)
(* Time.  Date.now() never goes back.  The variable now is what the last   *)
(* Date.now() of an operation gives, among those whose value the operation *)
(* keeps; a value the operation keeps from an earlier Date.now() is now or *)
(* now - 1, as the clock has ticked in between or has not.  An operation   *)
(* that keeps a reading leaves now + 1 behind, so the last readings of     *)
(* successive operations are distinct and increasing.                      *)
(*                                                                         *)
(* Objects.  An object the code uses as a map (emotionScores, the raw      *)
(* expressions) is the sequence of its own properties in iteration order;  *)
(* a read falls back to Object.prototype, and a value is a number, NaN, a  *)
(* string, a function or undefined, as the code's operators produce them.  *)
(*                                                                         *)
(* Asynchrony.  An async method runs up to its next await in one step and  *)
(* is then suspended, also when what it awaits is settled already; calls   *)
(* counts the suspended calls per await.  The settling of a promise runs   *)
(* the continuation of the method that awaits it, up to its next await or  *)
(* its end; when that method ends, its own promise settles and its caller  *)
(* is queued, and the caller's continuation is a later step.  A rejection  *)
(* changes no state on its way up to the handler that catches it, and is   *)
(* one step.                                                               *)
(***************************************************************************)
EXTENDS Integers, Sequences, FiniteSets, TLC

VARIABLES
    currentState,       \* MultiModalEmotionContext.currentState
    emotionHistory,     \* FacialEmotionDetector.emotionHistory (the window)
    isRunning,          \* FacialEmotionDetector.isRunning
    detectionInterval,  \* FacialEmotionDetector.detectionInterval (set or null)
    stream,             \* FacialEmotionDetector.stream (held or null)
    timers,             \* interval timers created by setInterval and not cleared
    inFlight,           \* sampling ticks suspended at their await
    modelsLoaded,       \* FacialEmotionDetector.modelsLoaded
    calls,              \* the asynchronous calls that are suspended: how
                        \* many wait at each site <<caller, awaited>>
    now,                \* Date.now()
    snapshot,           \* the object last returned by getCurrentState(), as
                        \* its holder sees it now (NULL before the first call)
    aliased,            \* the fields of snapshot that hold the very object
                        \* the same field of currentState holds; and
                        \* "history" when the history of the signal in
                        \* output is the detector's emotionHistory array
    output,             \* the value last returned by getResponseGuidelines(),
                        \* getEmotionColorScheme() or getCurrentEmotion(), or
                        \* the signal last taken from onEmotionDetected, as
                        \* its holder sees it now
    mounted,            \* a WebcamCapture component is mounted
    webcamIsRunning,    \* WebcamCapture: the isRunning state of the component
    cleanupIsRunning,   \* WebcamCapture: the isRunning that the cleanup of
                        \* the mount effect closed over
    webcamError,        \* WebcamCapture: the error state, NULL or a message
    onEmotionDetected   \* WebcamCapture: the onEmotionDetected prop is passed

vars == <<currentState, emotionHistory, isRunning, detectionInterval, stream,
          timers, inFlight, modelsLoaded, calls, now, snapshot, aliased, output,
          mounted, webcamIsRunning, cleanupIsRunning, webcamError,
          onEmotionDetected>>

webcamVars ==
    <<mounted, webcamIsRunning, cleanupIsRunning, webcamError, onEmotionDetected>>

startVars == <<modelsLoaded, calls>>

detectorVars ==
    <<emotionHistory, isRunning, detectionInterval, stream, timers, inFlight,
      modelsLoaded, calls>>

callerVars == <<snapshot, aliased, output>>

-----------------------------------------------------------------------------
(* Bounds of the model *)

\* clock readings explored by the fusion specification
MaxClock == 3
\* clock readings explored by the smoother specification
MaxTicks == 11
\* clock readings explored by the specification of both components
MaxSystemClock == 2
\* clock readings explored by the history specification
MaxMerges == 51
\* sampling ticks that may be suspended at once
MaxInFlight == 1
\* interval timers that may be live at once
MaxTimers == 2
\* asynchronous calls that may be suspended at once
MaxCalls == 1
\* clock readings explored by the specification of the returned state
MaxSnapshotClock == 2
\* clock readings explored by the specification of the queries
MaxLabelClock == 2
\* clock readings explored by the specification of the raw distributions
MaxExpressionClock == 1
\* clock readings explored by the specification of the emitted signals
MaxEmitClock == 3
\* clock readings explored by the specification of the webcam component
MaxWebcamClock == 2
\* clock readings explored by the specification of the majority vote
MaxVoteClock == 5
\* operations explored by the specification of the history at its limit
MaxEviction == 2

-----------------------------------------------------------------------------
(* Numbers and values *)

Scale == 2520 * 10

NULL == [null |-> TRUE]

-----------------------------------------------------------------------------
(* IEEE 754 doubles.                                                       *)
(*                                                                         *)
(* The double [val |-> n, err |-> k] is the number                         *)
(*     n / Scale  +  k / (Scale * 2^60).                                   *)
(* 0 and every double in [2^-8, 2^4) is such a number, with n the decimal  *)
(* the double stands for and k small; two doubles are equal exactly when   *)
(* their records are, and they are ordered by val, then by err.  An        *)
(* operation computes its exact result, the decimal n and an offset        *)
(* num / den in units of 1 / (Scale * 2^60), and rounds it to the nearest  *)
(* double, a tie to the double whose mantissa is even.                     *)

\* Scale = 2^4 * ScaleOdd, with ScaleOdd odd
ScaleOdd == Scale \div 16

RECURSIVE Pow2(_)
Pow2(e) == IF e = 0 THEN 1 ELSE 2 * Pow2(e - 1)

RECURSIVE Pow2Mod(_, _)
Pow2Mod(j, m) == IF j = 0 THEN 1 ELSE (2 * Pow2Mod(j - 1, m)) % m

\* 2^j modulo ScaleOdd, for j in 0..60
PowersOfTwo == [j \in 0..60 |-> Pow2Mod(j, ScaleOdd)]

RECURSIVE GCD(_, _)
GCD(a, b) == IF b = 0 THEN a ELSE GCD(b, a % b)

\* the binary exponents of the doubles of the model
LeastExponent == -8
GreatestExponent == 3

\* whether n / Scale, taken an instant lower when below holds, is less than
\* 2^e
BelowPowerOfTwo(n, e, below) ==
    LET left == IF e >= 0 THEN n ELSE n * Pow2(-e)
        right == IF e >= 0 THEN Scale * Pow2(e) ELSE Scale
    IN  left < right \/ (left = right /\ below)

\* the e with 2^e <= x < 2^(e+1), for x as above
RECURSIVE ExponentFrom(_, _, _)
ExponentFrom(n, below, e) ==
    IF e = LeastExponent \/ ~BelowPowerOfTwo(n, e, below) THEN e
    ELSE ExponentFrom(n, below, e - 1)

\* The double that lies steps doubles above the double just below
\* n / Scale, or one double further when the rest of the offset is more than
\* half of the distance ulp * den between two doubles, or is half of it and
\* the tie goes upwards: bias decides a tie when it is not 0, the parity of
\* the mantissa otherwise
RoundedAt(n, den, bias, ulp, low, odd, steps, rest) ==
    LET up == \/ 2 * rest > ulp * den
              \/ /\ 2 * rest = ulp * den
                 /\ \/ bias > 0
                    \/ bias = 0 /\ (odd # (steps % 2 = 1))
    IN  [val |-> n, err |-> (IF up THEN steps + 1 ELSE steps) * ulp - low]

\* offset is the distance, in units of 1 / den, from the double just below
\* n / Scale to the exact result
RoundOffset(n, den, bias, ulp, low, odd, offset) ==
    RoundedAt(n, den, bias, ulp, low, odd,
              offset \div (ulp * den), offset % (ulp * den))

\* The doubles around n / Scale are 2^g * Scale units apart: ulp is that
\* distance, low the distance from the double just below n / Scale to
\* n / Scale, and odd whether that double has an odd mantissa.
RoundInBinade(n, num, den, bias, g, residue, parity) ==
    RoundOffset(n, den, bias, Scale * Pow2(g), Pow2(g) * 16 * residue,
                32 * parity >= Scale, Pow2(g) * 16 * residue * den + num)

RoundWithExponent(n, num, den, bias, g) ==
    RoundInBinade(n, num, den, bias, g,
                  ((n % ScaleOdd) * PowersOfTwo[56 - g]) % ScaleOdd,
                  ((n % ScaleOdd) * PowersOfTwo[55 - g]) % ScaleOdd)

\* The double nearest to n / Scale + (num / den) / (Scale * 2^60), a tie
\* going to the double whose mantissa is even; bias is the sign of what the
\* exact result has beyond num / den, a quantity too small to matter unless
\* num / den is exactly half way between two doubles.
RoundToDouble(n, num, den, bias) ==
    IF n = 0 /\ num = 0 THEN [val |-> 0, err |-> 0]
    ELSE RoundWithExponent(n, num, den, bias,
            ExponentFrom(n, num < 0 \/ (num = 0 /\ bias < 0), GreatestExponent) + 8)

\* the double a decimal literal of n / Scale stands for
Number(n) == RoundToDouble(n, 0, 1, 0)

Zero == Number(0)
Half == Number(Scale \div 2)
One == Number(Scale)

\* x < y
Less(x, y) == x.val < y.val \/ (x.val = y.val /\ x.err < y.err)

\* x + y
Sum(x, y) == RoundToDouble(x.val + y.val, x.err + y.err, 1, 0)

\* x / y for y > 0, where x.val / y.val = a / b in lowest terms and
\* Scale / y.val = s / d in lowest terms.  With n = a * Scale / b the
\* decimal of the quotient, the exact quotient is n / Scale plus
\*     (Scale * x.err - n * y.err) / (y.val + y.err / 2^60)
\* units, which is s * (b * x.err - a * y.err) / (d * b) but for the term
\* y.err / 2^60, whose sign gives the bias.
QuotientOfTerms(x, y, a, b, s, d) ==
    IF y.err = 0 THEN RoundToDouble((a * Scale) \div b, s * x.err, d, 0)
    ELSE RoundToDouble((a * Scale) \div b, s * (b * x.err - a * y.err), d * b,
                       IF b * x.err = a * y.err THEN 0
                       ELSE IF (b * x.err > a * y.err) = (y.err > 0) THEN -1 ELSE 1)

\* x / y for y > 0
Quotient(x, y) ==
    IF x = Zero THEN Zero
    ELSE QuotientOfTerms(x, y, x.val \div GCD(x.val, y.val),
                         y.val \div GCD(x.val, y.val),
                         Scale \div GCD(Scale, y.val),
                         y.val \div GCD(Scale, y.val))

\* Math.min(x, y)
MathMin(x, y) == IF Less(y, x) THEN y ELSE x

CanonicalLabels ==
    {"happy", "neutral", "sad", "stressed", "tired", "focused", "anxious",
     "confused", "calm", "surprised"}

-----------------------------------------------------------------------------
(* JavaScript values and objects used as maps.                             *)
(*                                                                         *)
(* A value is a double  [val |-> n, err |-> k],  [nan |-> TRUE],           *)
(* [str |-> parts]  (the string that is the concatenation of parts, a      *)
(* number among the parts standing for its decimal text),                  *)
(* [function |-> name],  [object |-> name]  or  [undefined |-> TRUE].      *)
(*                                                                         *)
(* An object literal {} used as a map is the sequence of its own           *)
(* properties in the order Object.keys / Object.entries give them: the     *)
(* integer-like keys first, in ascending numeric order, then the other     *)
(* keys in the order of their first insertion.  An entry is the key        *)
(* together with the fields of its value, so a double under key k is       *)
(* [key |-> k, val |-> n, err |-> e].  A property read by name that is     *)
(* not an own property is looked up in Object.prototype.                   *)

NaN == [nan |-> TRUE]
Undefined == [undefined |-> TRUE]

IsNumber(v) == "val" \in DOMAIN v

\* the members every object inherits from Object.prototype, all functions
ObjectPrototypeMembers ==
    {"constructor", "toString", "toLocaleString", "valueOf", "hasOwnProperty",
     "isPrototypeOf", "propertyIsEnumerable", "__defineGetter__",
     "__defineSetter__", "__lookupGetter__", "__lookupSetter__"}

\* the function found under an inherited name; its text as a string is
\* "function <name>() { [native code] }"
InheritedFunction(k) == [function |-> IF k = "constructor" THEN "Object" ELSE k]

\* the number an integer-like key stands for, -1 for every other key; the
\* integer-like keys of the model are "0", "7" and "42"
ArrayIndex(k) ==
    CASE k = "0" -> 0
      [] k = "7" -> 7
      [] k = "42" -> 42
      [] OTHER -> -1

\* the entry that holds value v under key k: a map only ever holds numbers,
\* strings and NaN
Entry(k, v) ==
    CASE "val" \in DOMAIN v -> [key |-> k, val |-> v.val, err |-> v.err]
      [] "str" \in DOMAIN v -> [key |-> k, str |-> v.str]
      [] OTHER -> [key |-> k, nan |-> TRUE]

\* the value held by an entry
ValueOf(entry) ==
    CASE "val" \in DOMAIN entry -> [val |-> entry.val, err |-> entry.err]
      [] "str" \in DOMAIN entry -> [str |-> entry.str]
      [] OTHER -> NaN

\* position of the own property k of map m, 0 when m has no own property k
OwnIndexOf(m, k) ==
    IF \E i \in 1..Len(m) : m[i].key = k
    THEN CHOOSE i \in 1..Len(m) : m[i].key = k
    ELSE 0

\* m[k]: the own property, else the member inherited from Object.prototype
\* (__proto__ reads Object.prototype itself), else undefined
Lookup(m, k) ==
    IF OwnIndexOf(m, k) # 0 THEN ValueOf(m[OwnIndexOf(m, k)])
    ELSE IF k = "__proto__" THEN [object |-> "Object.prototype"]
    ELSE IF k \in ObjectPrototypeMembers THEN InheritedFunction(k)
    ELSE Undefined

\* whether v counts as true: 0, NaN, undefined and the empty string do not
Truthy(v) ==
    CASE "val" \in DOMAIN v -> v # Zero
      [] "nan" \in DOMAIN v -> FALSE
      [] "undefined" \in DOMAIN v -> FALSE
      [] "str" \in DOMAIN v -> Len(v.str) > 0
      [] OTHER -> TRUE

\* m[k] || 0
GetOrZero(m, k) == IF Truthy(Lookup(m, k)) THEN Lookup(m, k) ELSE Zero

\* v + n for a double n: the sum of two doubles, or the concatenation of
\* the text of v and the text of n
Plus(v, n) ==
    CASE "val" \in DOMAIN v -> Sum(v, n)
      [] "str" \in DOMAIN v -> [str |-> Append(v.str, n)]
      [] "function" \in DOMAIN v ->
            [str |-> <<"function " \o v.function \o "() { [native code] }", n>>]
      [] "object" \in DOMAIN v -> [str |-> <<"[object Object]", n>>]
      [] OTHER -> NaN

\* v / d for a double d > 0: none of the strings above is the text of a
\* number, so a string divided by a number is NaN
Divide(v, d) ==
    IF "val" \in DOMAIN v THEN Quotient(v, d) ELSE NaN

\* m with entry e inserted where Object.keys places a new key: an
\* integer-like key before the first key that is not integer-like or stands
\* for a larger number, any other key last
InsertNewKey(m, e) ==
    IF ArrayIndex(e.key) < 0
    THEN Append(m, e)
    ELSE LET after == {i \in 1..Len(m) : ArrayIndex(m[i].key) < 0
                                          \/ ArrayIndex(m[i].key) > ArrayIndex(e.key)}
             at == IF after = {} THEN Len(m) + 1
                   ELSE CHOOSE i \in after : \A j \in after : i <= j
         IN  SubSeq(m, 1, at - 1) \o <<e>> \o SubSeq(m, at, Len(m))

\* m[k] = v for a number, string or NaN v: an own property keeps its
\* position; __proto__ is the inherited setter, which ignores a value that
\* is not an object and creates no property; a new key is inserted
Put(m, k, v) ==
    IF OwnIndexOf(m, k) # 0
    THEN [i \in 1..Len(m) |-> IF i = OwnIndexOf(m, k) THEN Entry(k, v) ELSE m[i]]
    ELSE IF k = "__proto__" THEN m
    ELSE InsertNewKey(m, Entry(k, v))

\* let best = first; entries.forEach(e => { if (e.val > best.val) best = e })
\* a comparison with NaN or with a string that is not a number is false
RECURSIVE StrictMax(_, _, _)
StrictMax(m, i, best) ==
    IF i > Len(m) THEN best
    ELSE StrictMax(m, i + 1,
            IF "val" \in DOMAIN m[i] /\ Less(best, m[i]) THEN m[i] ELSE best)

-----
(* FacialEmotionDetector: the pure part *)

maxHistorySize == 10

\* the raw category with the largest probability, starting from neutral:
\* expressions is the classifier's object, iterated by Object.entries in the
\* order of its own properties
DominantExpression(expressions) ==
    StrictMax(expressions, 1, Entry("neutral", Lookup(expressions, "neutral")))

\* mutant: sad keeps its name, as in the emotionMap table that is never read
MapEmotionSadIsSad(dominantEmotion) ==
    CASE dominantEmotion = "happy" -> "happy"
      [] dominantEmotion = "sad" -> "sad"
      [] dominantEmotion = "angry" -> "stressed"
      [] dominantEmotion = "fearful" -> "stressed"
      [] dominantEmotion = "surprised" -> "focused"
      [] OTHER -> "neutral"

\* raw category -> label used by the application
MapEmotion(dominantEmotion) ==
    CASE dominantEmotion = "happy" -> "happy"
      [] dominantEmotion = "sad" -> "tired"
      [] dominantEmotion = "angry" -> "stressed"
      [] dominantEmotion = "fearful" -> "stressed"
      [] dominantEmotion = "surprised" -> "focused"
      [] OTHER -> "neutral"

ProcessFaceExpressions(expressions, t) ==
    [emotion |-> MapEmotion(DominantExpression(expressions).key),
     confidence |-> ValueOf(DominantExpression(expressions)),
     expressions |-> expressions,
     timestamp |-> t]

\* emotionCounts after the forEach over the window
RECURSIVE EmotionCounts(_, _, _)
EmotionCounts(window, i, counts) ==
    IF i > Len(window) THEN counts
    ELSE EmotionCounts(window, i + 1,
            Put(counts, window[i].emotion,
                Plus(GetOrZero(counts, window[i].emotion), One)))

\* emotionConfidences after the forEach over the window
RECURSIVE EmotionConfidences(_, _, _)
EmotionConfidences(window, i, sums) ==
    IF i > Len(window) THEN sums
    ELSE EmotionConfidences(window, i + 1,
            Put(sums, window[i].emotion,
                Plus(GetOrZero(sums, window[i].emotion), window[i].confidence)))

\* mutant: the labels are counted from the newest entry to the oldest, so
\* that among tied labels the one seen latest comes first
MostCommonNewestFirst(window) ==
    LET reversed == [i \in 1..Len(window) |-> window[Len(window) + 1 - i]]
    IN  StrictMax(EmotionCounts(reversed, 1, <<>>), 1, Entry("neutral", Zero))

\* the most common label of the window
MostCommon(window) ==
    StrictMax(EmotionCounts(window, 1, <<>>), 1, Entry("neutral", Zero))

\* mutant: the sum of the dominant label's confidences is divided by the
\* length of the window
AvgConfidenceOverWindow(window) ==
    LET dominantEmotion == MostCommon(window).key
        sums == EmotionConfidences(window, 1, <<>>)
    IN  Divide(Lookup(sums, dominantEmotion), Number(Len(window) * Scale))

\* emotionConfidences[dominantEmotion] / emotionCounts[dominantEmotion]
AvgConfidence(window) ==
    LET dominantEmotion == MostCommon(window).key
        sums == EmotionConfidences(window, 1, <<>>)
        counts == EmotionCounts(window, 1, <<>>)
    IN  Divide(Lookup(sums, dominantEmotion), Lookup(counts, dominantEmotion))

\* Math.min(avgConfidence, 1)
CapFacial(avgConfidence) == MathMin(avgConfidence, One)

\* mutant: the result for an empty window carries confidence 0
GetSmoothedEmotionZeroDefault(window, t) ==
    IF Len(window) = 0
    THEN [emotion |-> "neutral", confidence |-> Zero,
          history |-> <<>>, lastUpdate |-> t]
    ELSE [emotion |-> MostCommon(window).key,
          confidence |-> CapFacial(AvgConfidence(window)),
          history |-> window,
          lastUpdate |-> t]

GetSmoothedEmotion(window, t) ==
    IF Len(window) = 0
    THEN [emotion |-> "neutral", confidence |-> Half,
          history |-> <<>>, lastUpdate |-> t]
    ELSE [emotion |-> MostCommon(window).key,
          confidence |-> CapFacial(AvgConfidence(window)),
          history |-> window,
          lastUpdate |-> t]

\* mutant: pop() instead of shift(), the newest entry is dropped
PushWindowDropNewest(window, facialEmotion) ==
    IF Len(window) + 1 > maxHistorySize
    THEN window
    ELSE Append(window, facialEmotion)

\* push, then shift when longer than maxHistorySize
PushWindow(window, facialEmotion) ==
    IF Len(window) + 1 > maxHistorySize
    THEN Tail(Append(window, facialEmotion))
    ELSE Append(window, facialEmotion)

-----------------------------------------------------------------------------
(* MultiModalEmotionContext: the pure part *)

emotionHistoryLimit == 50

\* mutant: the weights of the facial and the text channel are exchanged
EMOTION_WEIGHTS_Swapped ==
    [facial |-> Number(Scale \div 5),
     voice |-> Number((3 * Scale) \div 10),
     text |-> Number(Scale \div 2)]

\* mutant: channel weights 0.4, 0.3, 0.3
EMOTION_WEIGHTS_Even ==
    [facial |-> Number((4 * Scale) \div 10),
     voice |-> Number((3 * Scale) \div 10),
     text |-> Number((3 * Scale) \div 10)]

\* channel weights 0.5, 0.3, 0.2
EMOTION_WEIGHTS ==
    [facial |-> Number(Scale \div 2),
     voice |-> Number((3 * Scale) \div 10),
     text |-> Number(Scale \div 5)]

\* 45 * 60 and 90 * 60 seconds
FatigueThreshold1 == 45 * 60
FatigueThreshold2 == 90 * 60

\* mutant: the second bias is 0.45, so the two together exceed 0.5
FatigueBias2Large == Number((45 * Scale) \div 100)

\* 0.1 and 0.15
FatigueBias1 == Number(Scale \div 10)
FatigueBias2 == Number((15 * Scale) \div 100)

InitialState(t) ==
    [facialEmotion |-> NULL,
     voiceEmotion |-> NULL,
     textEmotion |-> NULL,
     sessionDuration |-> 0,
     mergedEmotion |-> "neutral",
     confidence |-> Half,
     lastUpdate |-> t,
     emotionHistory |-> <<>>]

\* mutant: the channels are collected in the order text, voice, facial
CollectEmotionsTextFirst(st) ==
    (IF st.textEmotion # NULL
     THEN <<[emotion |-> st.textEmotion.emotion, weight |-> EMOTION_WEIGHTS.text]>>
     ELSE <<>>)
    \o (IF st.voiceEmotion # NULL
        THEN <<[emotion |-> st.voiceEmotion.emotion, weight |-> EMOTION_WEIGHTS.voice]>>
        ELSE <<>>)
    \o (IF st.facialEmotion # NULL
        THEN <<[emotion |-> st.facialEmotion.emotion, weight |-> EMOTION_WEIGHTS.facial]>>
        ELSE <<>>)

\* the [emotion, weight] pairs of the channels that are present, in the
\* order facial, voice, text
CollectEmotions(st) ==
    (IF st.facialEmotion # NULL
     THEN <<[emotion |-> st.facialEmotion.emotion, weight |-> EMOTION_WEIGHTS.facial]>>
     ELSE <<>>)
    \o (IF st.voiceEmotion # NULL
        THEN <<[emotion |-> st.voiceEmotion.emotion, weight |-> EMOTION_WEIGHTS.voice]>>
        ELSE <<>>)
    \o (IF st.textEmotion # NULL
        THEN <<[emotion |-> st.textEmotion.emotion, weight |-> EMOTION_WEIGHTS.text]>>
        ELSE <<>>)

\* emotionScores after the accumulating forEach
RECURSIVE AccumulateScores(_, _, _)
AccumulateScores(emotions, i, scores) ==
    IF i > Len(emotions) THEN scores
    ELSE AccumulateScores(emotions, i + 1,
            Put(scores, emotions[i].emotion,
                Plus(GetOrZero(scores, emotions[i].emotion), emotions[i].weight)))

\* totalWeight after the accumulating forEach, from totalWeight = total
\* before entry i
RECURSIVE TotalWeight(_, _, _)
TotalWeight(emotions, i, total) ==
    IF i > Len(emotions) THEN total
    ELSE TotalWeight(emotions, i + 1, Sum(total, emotions[i].weight))

\* mutant: the scores are left as accumulated
NormalizeScoresMissing(scores, totalWeight) == scores

\* emotionScores[emotion] /= totalWeight, for every key
NormalizeScores(scores, totalWeight) ==
    [i \in 1..Len(scores) |->
        Entry(scores[i].key, Divide(ValueOf(scores[i]), totalWeight))]

\* mutant: the thresholds are tested with >=
ApplyFatigueBiasNonStrict(scores, sessionDuration) ==
    LET s0 == Put(scores, "tired", GetOrZero(scores, "tired"))
        s1 == IF sessionDuration >= FatigueThreshold1
              THEN Put(s0, "tired", Plus(Lookup(s0, "tired"), FatigueBias1))
              ELSE s0
    IN  IF sessionDuration >= FatigueThreshold2
        THEN Put(s1, "tired", Plus(Lookup(s1, "tired"), FatigueBias2))
        ELSE s1

\* the session duration heuristics on the tired score
ApplyFatigueBias(scores, sessionDuration) ==
    LET s0 == Put(scores, "tired", GetOrZero(scores, "tired"))
        s1 == IF sessionDuration > FatigueThreshold1
              THEN Put(s0, "tired", Plus(Lookup(s0, "tired"), FatigueBias1))
              ELSE s0
    IN  IF sessionDuration > FatigueThreshold2
        THEN Put(s1, "tired", Plus(Lookup(s1, "tired"), FatigueBias2))
        ELSE s1

\* emotionScores after the normalizing forEach
NormalizedScores(st) ==
    NormalizeScores(AccumulateScores(CollectEmotions(st), 1, <<>>),
                    TotalWeight(CollectEmotions(st), 1, Zero))

\* emotionScores when the dominant emotion is looked for
PostBiasScores(st) == ApplyFatigueBias(NormalizedScores(st), st.sessionDuration)

\* mutant: a later label with an equal score displaces the earlier one
RECURSIVE NonStrictMax(_, _, _)
NonStrictMax(m, i, best) ==
    IF i > Len(m) THEN best
    ELSE NonStrictMax(m, i + 1,
            IF "val" \in DOMAIN m[i] /\ ~Less(m[i], best) THEN m[i] ELSE best)

FindDominantNonStrict(scores) == NonStrictMax(scores, 1, Entry("neutral", Zero))

\* dominantEmotion and maxScore after the forEach over Object.entries
FindDominant(scores) == StrictMax(scores, 1, Entry("neutral", Zero))

\* mutant: the score is stored without the cap at 1
CapConfidenceMissing(maxScore) == maxScore

\* Math.min(maxScore, 1)
CapConfidence(maxScore) == MathMin(maxScore, One)

\* mutant: the limit is tested with >= and an entry is shifted one push early
LogToHistoryEarlyShift(history, entry) ==
    IF Len(history) + 1 >= emotionHistoryLimit
    THEN Tail(Append(history, entry))
    ELSE Append(history, entry)

\* push, then shift when longer than emotionHistoryLimit
LogToHistory(history, entry) ==
    IF Len(history) + 1 > emotionHistoryLimit
    THEN Tail(Append(history, entry))
    ELSE Append(history, entry)

\* mutant: the duration heuristics run before the test for no channel
RecomputeBiasBeforeEmptyCheck(st, t) ==
    LET scores ==
            IF Len(CollectEmotions(st)) = 0
            THEN ApplyFatigueBias(<<>>, st.sessionDuration)
            ELSE PostBiasScores(st)
        dominant == FindDominant(scores)
    IN  IF Len(CollectEmotions(st)) = 0
        THEN [st EXCEPT !.mergedEmotion = dominant.key, !.confidence = Half]
        ELSE [st EXCEPT
                !.mergedEmotion = dominant.key,
                !.confidence = CapConfidence(ValueOf(dominant)),
                !.emotionHistory =
                    LogToHistory(st.emotionHistory,
                                 [emotion |-> dominant.key,
                                  source |-> "merged",
                                  timestamp |-> t])]

\* mutant: with no channel the default result is logged like any other
RecomputeLogsWhenEmpty(st, t) ==
    LET dominant ==
            IF Len(CollectEmotions(st)) = 0
            THEN Entry("neutral", Half)
            ELSE FindDominant(PostBiasScores(st))
    IN  [st EXCEPT
            !.mergedEmotion = dominant.key,
            !.confidence = CapConfidence(ValueOf(dominant)),
            !.emotionHistory =
                LogToHistory(st.emotionHistory,
                             [emotion |-> dominant.key,
                              source |-> "merged",
                              timestamp |-> t])]

\* mutant: the history entry is written before mergedEmotion is assigned and
\* carries the label of the merge before
RecomputeLogsStaleEmotion(st, t) ==
    IF Len(CollectEmotions(st)) = 0
    THEN [st EXCEPT !.mergedEmotion = "neutral", !.confidence = Half]
    ELSE LET dominant == FindDominant(PostBiasScores(st))
         IN  [st EXCEPT
                !.mergedEmotion = dominant.key,
                !.confidence = CapConfidence(ValueOf(dominant)),
                !.emotionHistory =
                    LogToHistory(st.emotionHistory,
                                 [emotion |-> st.mergedEmotion,
                                  source |-> "merged",
                                  timestamp |-> t])]

\* the state left by recomputeMergedEmotion() called at time t on state st
RecomputeMergedEmotion(st, t) ==
    IF Len(CollectEmotions(st)) = 0
    THEN [st EXCEPT !.mergedEmotion = "neutral", !.confidence = Half]
    ELSE LET dominant == FindDominant(PostBiasScores(st))
         IN  [st EXCEPT
                !.mergedEmotion = dominant.key,
                !.confidence = CapConfidence(ValueOf(dominant)),
                !.emotionHistory =
                    LogToHistory(st.emotionHistory,
                                 [emotion |-> dominant.key,
                                  source |-> "merged",
                                  timestamp |-> t])]

\* whether recomputeMergedEmotion() reads the clock on state st
ReadsClock(st) == Len(CollectEmotions(st)) > 0

\* the five objects getResponseGuidelines() can return
GuidelinesEnergetic ==
    [tone |-> "energetic", verbosity |-> "normal", detail |-> "comprehensive",
     suggestions |-> <<"Continue learning", "Maintain momentum">>,
     breakNeeded |-> FALSE, encouragement |-> TRUE,
     voiceSettings |-> [pitch |-> "high", pace |-> "fast", emotion |-> "happy"]]

GuidelinesCalm ==
    [tone |-> "calm", verbosity |-> "concise", detail |-> "simplified",
     suggestions |-> <<"Take a short break", "Try a breathing exercise",
                       "Move to a different location">>,
     breakNeeded |-> TRUE, encouragement |-> TRUE,
     voiceSettings |-> [pitch |-> "low", pace |-> "slow", emotion |-> "calm"]]

GuidelinesSupportive ==
    [tone |-> "supportive", verbosity |-> "minimal", detail |-> "simplified",
     suggestions |-> <<"Take a longer break", "Try a 10-minute power nap",
                       "Go for a walk", "Stretch and move around">>,
     breakNeeded |-> TRUE, encouragement |-> TRUE,
     voiceSettings |-> [pitch |-> "medium", pace |-> "slow", emotion |-> "calm"]]

GuidelinesPatient ==
    [tone |-> "patient", verbosity |-> "detailed", detail |-> "step-by-step",
     suggestions |-> <<"Break down the problem", "Use analogies",
                       "Start with fundamentals">>,
     breakNeeded |-> FALSE, encouragement |-> TRUE,
     voiceSettings |-> [pitch |-> "medium", pace |-> "medium", emotion |-> "calm"]]

GuidelinesProfessional ==
    [tone |-> "professional", verbosity |-> "normal", detail |-> "comprehensive",
     suggestions |-> <<"Keep learning", "Maintain focus">>,
     breakNeeded |-> FALSE, encouragement |-> FALSE,
     voiceSettings |-> [pitch |-> "medium", pace |-> "normal", emotion |-> "neutral"]]

\* the table of getEmotionColorScheme()
schemes ==
    [happy |->
        [primary |-> "#FCD34D", secondary |-> "#FBBF24", background |-> "#FFFBEB",
         text |-> "#000000", accent |-> "#F59E0B",
         gradient |-> "from-yellow-300 to-orange-400"],
     focused |->
        [primary |-> "#10B981", secondary |-> "#059669", background |-> "#ECFDF5",
         text |-> "#000000", accent |-> "#34D399",
         gradient |-> "from-green-400 to-emerald-600"],
     neutral |->
        [primary |-> "#9CA3AF", secondary |-> "#6B7280", background |-> "#F9FAFB",
         text |-> "#000000", accent |-> "#D1D5DB",
         gradient |-> "from-gray-400 to-gray-600"],
     calm |->
        [primary |-> "#60A5FA", secondary |-> "#3B82F6", background |-> "#EFF6FF",
         text |-> "#000000", accent |-> "#93C5FD",
         gradient |-> "from-blue-400 to-blue-600"],
     stressed |->
        [primary |-> "#F87171", secondary |-> "#EF4444", background |-> "#FEF2F2",
         text |-> "#000000", accent |-> "#FCA5A5",
         gradient |-> "from-red-400 to-red-600"],
     tired |->
        [primary |-> "#A78BFA", secondary |-> "#8B5CF6", background |-> "#FAF5FF",
         text |-> "#000000", accent |-> "#D8B4FE",
         gradient |-> "from-purple-400 to-purple-600"],
     sad |->
        [primary |-> "#38BDF8", secondary |-> "#0EA5E9", background |-> "#F0F9FF",
         text |-> "#000000", accent |-> "#7DD3FC",
         gradient |-> "from-sky-400 to-blue-600"],
     confused |->
        [primary |-> "#F97316", secondary |-> "#FB923C", background |-> "#FFF7ED",
         text |-> "#000000", accent |-> "#FDBA74",
         gradient |-> "from-orange-400 to-orange-600"],
     anxious |->
        [primary |-> "#F472B6", secondary |-> "#EC4899", background |-> "#FDF2F8",
         text |-> "#000000", accent |-> "#F9A8D4",
         gradient |-> "from-pink-400 to-red-500"]]

\* mutant: a label without a palette gets no palette (undefined)
EmotionColorSchemeNoFallback(emotion) ==
    IF emotion \in DOMAIN schemes THEN schemes[emotion] ELSE NULL

\* schemes[emotion] || schemes.neutral
EmotionColorSchemeFor(emotion) ==
    IF emotion \in DOMAIN schemes THEN schemes[emotion]
    ELSE IF emotion = "__proto__" THEN [object |-> "Object.prototype"]
    ELSE IF emotion \in ObjectPrototypeMembers THEN InheritedFunction(emotion)
    ELSE schemes["neutral"]

\* mutant: calm is a case of its own and answers in the calm tone
ResponseGuidelinesCalmCase(emotion) ==
    CASE emotion \in {"happy", "focused"} -> GuidelinesEnergetic
      [] emotion \in {"stressed", "anxious", "calm"} -> GuidelinesCalm
      [] emotion \in {"tired", "sad"} -> GuidelinesSupportive
      [] emotion = "confused" -> GuidelinesPatient
      [] OTHER -> GuidelinesProfessional

\* the switch of getResponseGuidelines() on the merged emotion
ResponseGuidelinesFor(emotion) ==
    CASE emotion \in {"happy", "focused"} -> GuidelinesEnergetic
      [] emotion \in {"stressed", "anxious"} -> GuidelinesCalm
      [] emotion \in {"tired", "sad"} -> GuidelinesSupportive
      [] emotion = "confused" -> GuidelinesPatient
      [] OTHER -> GuidelinesProfessional

-----------------------------------------------------------------------------
(* Inputs *)

\* the double of the decimal literal of n tenths
Tenths(n) == Number(n * (Scale \div 10))

\* an expressions object whose properties were created in the order
\* neutral, happy, sad, angry, fearful, disgusted, surprised
Expressions(n, h, s, a, f, d, su) ==
    <<Entry("neutral", Tenths(n)), Entry("happy", Tenths(h)),
      Entry("sad", Tenths(s)), Entry("angry", Tenths(a)),
      Entry("fearful", Tenths(f)), Entry("disgusted", Tenths(d)),
      Entry("surprised", Tenths(su))>>

RawHappy == Expressions(1, 8, 0, 0, 0, 0, 1)
RawSad == Expressions(2, 0, 6, 1, 0, 1, 0)
RawNeutral == Expressions(7, 1, 1, 0, 0, 0, 1)
RawAngry == Expressions(1, 0, 2, 7, 0, 0, 0)
RawJoy == Expressions(0, 10, 0, 0, 0, 0, 0)

\* what the classifier returns to a sampling tick: a detection that holds
\* an expressions object, or NULL when no face is detected
Detected(expressions) == [expressions |-> expressions]

\* smoothed facial states handed to updateFacialEmotion: the smoother's
\* output after one tick
FacialInputs ==
    {GetSmoothedEmotion(<<ProcessFaceExpressions(x, 0)>>, 0) :
        x \in {RawHappy, RawSad, RawNeutral, RawAngry}}

VoiceInputs ==
    {[emotion |-> "happy", confidence |-> One, tone |-> "bright", timestamp |-> 0],
     [emotion |-> "tired", confidence |-> Half, tone |-> "flat", timestamp |-> 0],
     [emotion |-> "calm", confidence |-> Zero, tone |-> "soft", timestamp |-> 0]}

TextInputs ==
    {[emotion |-> "happy", confidence |-> Half, timestamp |-> 0],
     [emotion |-> "tired", confidence |-> Zero, timestamp |-> 0],
     [emotion |-> "neutral", confidence |-> One, timestamp |-> 0]}

\* session durations on both sides of the two thresholds
Durations ==
    {0, FatigueThreshold1, FatigueThreshold1 + 1,
     FatigueThreshold2, FatigueThreshold2 + 1}

-----------------------------------------------------------------------------
(* Asynchronous calls of the detector *)

\* Where a call can be suspended.  The first component tells whose call it
\* is: "alone" initialize() or requestCameraAccess() called on their own,
\* "start" startDetection() called on the detector, "webcam"
\* startDetection() or stopDetection() of the mounted WebcamCapture
\* component.  The second component is what the call waits for:
\*   "models"       the loading of the models, inside initialize()
\*   "initialized"  the promise of initialize() is settled, and the caller
\*                  that awaits it is queued
\*   "camera"       the answer of getUserMedia, inside requestCameraAccess()
\*   "granted"      the promise of requestCameraAccess() is settled, and
\*                  startDetection() of the detector is queued
\*   "metadata"     the loadedmetadata event of the video element
\*   "started"      the promise of startDetection() of the detector is
\*                  settled, and the component is queued
\*   "stopped"      the promise of stopDetection() of the detector is
\*                  settled, and the component is queued
\* A queued continuation runs in a microtask of its own, and what other
\* microtasks do falls between it and the step that queued it.
Sites ==
    {<<"alone", "models">>, <<"alone", "camera">>,
     <<"start", "models">>, <<"start", "initialized">>, <<"start", "camera">>,
     <<"start", "granted">>, <<"start", "metadata">>,
     <<"webcam", "models">>, <<"webcam", "initialized">>, <<"webcam", "camera">>,
     <<"webcam", "granted">>, <<"webcam", "metadata">>, <<"webcam", "started">>,
     <<"webcam", "stopped">>}

RECURSIVE SumOver(_, _)
SumOver(f, sites) ==
    IF sites = {} THEN 0
    ELSE LET site == CHOOSE x \in sites : TRUE
         IN  f[site] + SumOver(f, sites \ {site})

\* the number of suspended calls
Suspended(c) == SumOver(c, Sites)

Arrive(c, site) == [c EXCEPT ![site] = @ + 1]
Leave(c, site) == [c EXCEPT ![site] = @ - 1]

-----------------------------------------------------------------------------
(* State after construction of the two singletons *)

Init ==
    /\ currentState = InitialState(0)
    /\ emotionHistory = <<>>
    /\ isRunning = FALSE
    /\ detectionInterval = FALSE
    /\ stream = FALSE
    /\ timers = 0
    /\ inFlight = 0
    /\ modelsLoaded = FALSE
    /\ calls = [site \in Sites |-> 0]
    /\ now = 1
    /\ snapshot = NULL
    /\ aliased = {}
    /\ output = NULL
    /\ mounted = FALSE
    /\ webcamIsRunning = FALSE
    /\ cleanupIsRunning = FALSE
    /\ webcamError = NULL
    /\ onEmotionDetected = FALSE

\* the state in which the promise of a first startDetection() is resolved:
\* models loaded, camera granted, loadedmetadata handled, the interval set
InitRunning ==
    /\ currentState = InitialState(0)
    /\ emotionHistory = <<>>
    /\ isRunning = TRUE
    /\ detectionInterval = TRUE
    /\ stream = TRUE
    /\ timers = 1
    /\ inFlight = 0
    /\ modelsLoaded = TRUE
    /\ calls = [site \in Sites |-> 0]
    /\ now = 1
    /\ snapshot = NULL
    /\ aliased = {}
    /\ output = NULL
    /\ mounted = FALSE
    /\ webcamIsRunning = FALSE
    /\ cleanupIsRunning = FALSE
    /\ webcamError = NULL
    /\ onEmotionDetected = FALSE

-----------------------------------------------------------------------------
(* MultiModalEmotionContext: operations *)

\* now' after an operation that leaves state st behind
ClockAfterRecompute(st) == IF ReadsClock(st) THEN now + 1 ELSE now

\* what an earlier Date.now() of an operation can have given when its later
\* one gives t
EarlierReadings(t) == {t - 1, t}

\* The object returned by getCurrentState() after the engine has left state
\* st behind: the engine pushes to and shifts from its history array in
\* place, so a returned object that holds that very array shows the same
\* entries.
SnapshotSeeing(st) ==
    IF snapshot # NULL /\ "emotionHistory" \in aliased
    THEN [snapshot EXCEPT !.emotionHistory = st.emotionHistory]
    ELSE snapshot

\* The channel updates read the clock twice: for lastUpdate, and then, in
\* recomputeMergedEmotion(), for the timestamp of the history entry.
UpdateFacialEmotion(facialEmotion) ==
    /\ \E stamp \in EarlierReadings(now) :
          currentState' =
              RecomputeMergedEmotion(
                  [currentState EXCEPT !.facialEmotion = facialEmotion,
                                       !.lastUpdate = stamp], now)
    /\ snapshot' = SnapshotSeeing(currentState')
    /\ aliased' = aliased \ {"facialEmotion"}
    /\ now' = now + 1
    /\ UNCHANGED output
    /\ UNCHANGED detectorVars

UpdateVoiceEmotion(voiceEmotion) ==
    /\ \E stamp \in EarlierReadings(now) :
          currentState' =
              RecomputeMergedEmotion(
                  [currentState EXCEPT !.voiceEmotion = voiceEmotion,
                                       !.lastUpdate = stamp], now)
    /\ snapshot' = SnapshotSeeing(currentState')
    /\ aliased' = aliased \ {"voiceEmotion"}
    /\ now' = now + 1
    /\ UNCHANGED output
    /\ UNCHANGED detectorVars

\* mutant: the text reading is stored in the voice slot
UpdateTextEmotionIntoVoiceSlot(textEmotion) ==
    /\ \E stamp \in EarlierReadings(now) :
          currentState' =
              RecomputeMergedEmotion(
                  [currentState EXCEPT !.voiceEmotion = textEmotion,
                                       !.lastUpdate = stamp], now)
    /\ snapshot' = SnapshotSeeing(currentState')
    /\ aliased' = aliased \ {"voiceEmotion"}
    /\ now' = now + 1
    /\ UNCHANGED output
    /\ UNCHANGED detectorVars

UpdateTextEmotion(textEmotion) ==
    /\ \E stamp \in EarlierReadings(now) :
          currentState' =
              RecomputeMergedEmotion(
                  [currentState EXCEPT !.textEmotion = textEmotion,
                                       !.lastUpdate = stamp], now)
    /\ snapshot' = SnapshotSeeing(currentState')
    /\ aliased' = aliased \ {"textEmotion"}
    /\ now' = now + 1
    /\ UNCHANGED output
    /\ UNCHANGED detectorVars

\* mutant: the duration is stored and the merged emotion is left as it was
UpdateSessionDurationNoRecompute(seconds) ==
    /\ currentState' = [currentState EXCEPT !.sessionDuration = seconds]
    /\ UNCHANGED now
    /\ UNCHANGED callerVars
    /\ UNCHANGED detectorVars

UpdateSessionDuration(seconds) ==
    /\ currentState' =
          RecomputeMergedEmotion(
              [currentState EXCEPT !.sessionDuration = seconds], now)
    /\ snapshot' = SnapshotSeeing(currentState')
    /\ now' = ClockAfterRecompute(currentState)
    /\ UNCHANGED <<aliased, output>>
    /\ UNCHANGED detectorVars

\* mutant: the channels and the history are cleared, the duration is kept
ResetKeepsDuration ==
    /\ currentState' =
          [facialEmotion |-> NULL,
           voiceEmotion |-> NULL,
           textEmotion |-> NULL,
           sessionDuration |-> currentState.sessionDuration,
           mergedEmotion |-> "neutral",
           confidence |-> Half,
           lastUpdate |-> now,
           emotionHistory |-> <<>>]
    /\ aliased' = aliased \cap {"history"}
    /\ now' = now + 1
    /\ UNCHANGED <<snapshot, output>>
    /\ UNCHANGED detectorVars

\* reset(): currentState is a new object with a new, empty history array
Reset ==
    /\ currentState' =
          [facialEmotion |-> NULL,
           voiceEmotion |-> NULL,
           textEmotion |-> NULL,
           sessionDuration |-> 0,
           mergedEmotion |-> "neutral",
           confidence |-> Half,
           lastUpdate |-> now,
           emotionHistory |-> <<>>]
    /\ aliased' = aliased \cap {"history"}
    /\ now' = now + 1
    /\ UNCHANGED <<snapshot, output>>
    /\ UNCHANGED detectorVars

\* getCurrentState(): { ...this.currentState }, a new object whose fields
\* are those of currentState, so its history array and its reading objects
\* are the engine's own
GetCurrentState ==
    /\ snapshot' = currentState
    /\ aliased' =
          (aliased \cap {"history"}) \cup {"emotionHistory"} \cup
          {f \in {"facialEmotion", "voiceEmotion", "textEmotion"} :
              currentState[f] # NULL}
    /\ UNCHANGED <<currentState, now, output>>
    /\ UNCHANGED detectorVars

\* the holder of the returned object assigns its mergedEmotion field
CallerAssignsMergedEmotion(label) ==
    /\ snapshot # NULL
    /\ snapshot' = [snapshot EXCEPT !.mergedEmotion = label]
    /\ UNCHANGED <<currentState, now, aliased, output>>
    /\ UNCHANGED detectorVars

\* the holder of the returned object calls pop() on its emotionHistory
CallerPopsHistory ==
    /\ snapshot # NULL
    /\ Len(snapshot.emotionHistory) > 0
    /\ snapshot' =
          [snapshot EXCEPT !.emotionHistory =
              SubSeq(snapshot.emotionHistory, 1, Len(snapshot.emotionHistory) - 1)]
    /\ currentState' =
          IF "emotionHistory" \in aliased
          THEN [currentState EXCEPT !.emotionHistory = snapshot'.emotionHistory]
          ELSE currentState
    /\ UNCHANGED <<now, aliased, output>>
    /\ UNCHANGED detectorVars

\* the holder of the returned object assigns the emotion field of the
\* reading in one of its channel slots
CallerRelabelsReading(slot, label) ==
    /\ snapshot # NULL
    /\ snapshot[slot] # NULL
    /\ snapshot' = [snapshot EXCEPT ![slot].emotion = label]
    /\ currentState' =
          IF slot \in aliased
          THEN [currentState EXCEPT ![slot] = snapshot'[slot]]
          ELSE currentState
    /\ UNCHANGED <<now, aliased, output>>
    /\ UNCHANGED detectorVars

\* getResponseGuidelines()
GetResponseGuidelines ==
    /\ output' = [op |-> "getResponseGuidelines",
                  value |-> ResponseGuidelinesFor(currentState.mergedEmotion)]
    /\ aliased' = aliased \ {"history"}
    /\ UNCHANGED <<currentState, now, snapshot>>
    /\ UNCHANGED detectorVars

\* getEmotionColorScheme()
GetEmotionColorScheme ==
    /\ output' = [op |-> "getEmotionColorScheme",
                  value |-> EmotionColorSchemeFor(currentState.mergedEmotion)]
    /\ aliased' = aliased \ {"history"}
    /\ UNCHANGED <<currentState, now, snapshot>>
    /\ UNCHANGED detectorVars

-----------------------------------------------------------------------------
(* FacialEmotionDetector: operations *)

\* startDetection() from its test of the stream on, for a caller `by` and
\* with the calls c suspended otherwise: with no stream held the call is
\* suspended at getUserMedia, inside requestCameraAccess(); with a stream
\* held isRunning is set and the call waits for the loadedmetadata event of
\* the video element
EnterDetection(by, c) ==
    IF stream
    THEN /\ isRunning' = TRUE
         /\ calls' = Arrive(c, <<by, "metadata">>)
    ELSE /\ isRunning' = isRunning
         /\ calls' = Arrive(c, <<by, "camera">>)

\* initialize() called on its own: returns at once when the models are
\* loaded, is suspended at the loading otherwise
Initialize ==
    /\ Suspended(calls) < MaxCalls
    /\ calls' = IF modelsLoaded THEN calls ELSE Arrive(calls, <<"alone", "models">>)
    /\ UNCHANGED <<currentState, emotionHistory, isRunning, detectionInterval,
                   stream, timers, inFlight, modelsLoaded, now>>
    /\ UNCHANGED callerVars

\* requestCameraAccess() called on its own: suspended at getUserMedia
RequestCameraAccess ==
    /\ Suspended(calls) < MaxCalls
    /\ calls' = Arrive(calls, <<"alone", "camera">>)
    /\ UNCHANGED <<currentState, emotionHistory, isRunning, detectionInterval,
                   stream, timers, inFlight, modelsLoaded, now>>
    /\ UNCHANGED callerVars

\* startDetection() up to its first suspension: initialize() is awaited
\* only when the models are not loaded
StartDetection ==
    /\ Suspended(calls) < MaxCalls
    /\ IF modelsLoaded
       THEN EnterDetection("start", calls)
       ELSE /\ calls' = Arrive(calls, <<"start", "models">>)
            /\ UNCHANGED isRunning
    /\ UNCHANGED <<currentState, emotionHistory, detectionInterval, stream,
                   timers, inFlight, modelsLoaded, now>>
    /\ UNCHANGED callerVars

\* the loading of the models settles for a call of `by`, and initialize()
\* goes on: loaded sets modelsLoaded and settles the promise of
\* initialize(), which queues the caller that awaits it; a failure is
\* thrown on through every caller, and ends the call
ModelsSettle(by, loaded) ==
    /\ calls[<<by, "models">>] > 0
    /\ modelsLoaded' = (modelsLoaded \/ loaded)
    /\ calls' = IF loaded /\ by # "alone"
                THEN Arrive(Leave(calls, <<by, "models">>), <<by, "initialized">>)
                ELSE Leave(calls, <<by, "models">>)
    /\ UNCHANGED <<currentState, emotionHistory, isRunning, detectionInterval,
                   stream, timers, inFlight, now>>
    /\ UNCHANGED callerVars

\* startDetection() of the detector goes on after its await of initialize()
StartDetectionAfterInitialize ==
    /\ calls[<<"start", "initialized">>] > 0
    /\ EnterDetection("start", Leave(calls, <<"start", "initialized">>))
    /\ UNCHANGED <<currentState, emotionHistory, detectionInterval, stream,
                   timers, inFlight, modelsLoaded, now>>
    /\ UNCHANGED callerVars

\* getUserMedia settles for a call of `by`, and requestCameraAccess() goes
\* on: granted stores the stream and settles the promise of
\* requestCameraAccess(), which queues startDetection(); a denial is thrown
\* on through every caller, and ends the call
CameraSettles(by, granted) ==
    /\ calls[<<by, "camera">>] > 0
    /\ stream' = (stream \/ granted)
    /\ calls' = IF granted /\ by # "alone"
                THEN Arrive(Leave(calls, <<by, "camera">>), <<by, "granted">>)
                ELSE Leave(calls, <<by, "camera">>)
    /\ UNCHANGED <<currentState, emotionHistory, isRunning, detectionInterval,
                   timers, inFlight, modelsLoaded, now>>
    /\ UNCHANGED callerVars

\* startDetection() of the detector goes on after its await of
\* requestCameraAccess(): it hands the video element whatever this.stream
\* is by now, sets isRunning and waits for the loadedmetadata event
StartDetectionAfterCamera(by) ==
    /\ calls[<<by, "granted">>] > 0
    /\ isRunning' = TRUE
    /\ calls' = Arrive(Leave(calls, <<by, "granted">>), <<by, "metadata">>)
    /\ UNCHANGED <<currentState, emotionHistory, detectionInterval, stream,
                   timers, inFlight, modelsLoaded, now>>
    /\ UNCHANGED callerVars

\* the loadedmetadata event of a call of `by`: setInterval, and the promise
\* of startDetection() is resolved, which queues the component when the
\* call is its own; the handle of an interval that is still live is
\* overwritten, not cleared
MetadataLoaded(by) ==
    /\ calls[<<by, "metadata">>] > 0
    /\ timers < MaxTimers
    /\ detectionInterval' = TRUE
    /\ timers' = timers + 1
    /\ calls' = IF by = "webcam"
                THEN Arrive(Leave(calls, <<by, "metadata">>), <<by, "started">>)
                ELSE Leave(calls, <<by, "metadata">>)
    /\ UNCHANGED <<currentState, emotionHistory, isRunning, stream, inFlight,
                   modelsLoaded, now>>
    /\ UNCHANGED callerVars

\* the interval callback up to its await: returns at once when not running
TickStart ==
    /\ timers > 0
    /\ inFlight < MaxInFlight
    /\ inFlight' = IF isRunning THEN inFlight + 1 ELSE inFlight
    /\ UNCHANGED <<currentState, emotionHistory, isRunning, detectionInterval,
                   stream, timers, now>>
    /\ UNCHANGED startVars
    /\ UNCHANGED callerVars

\* The signal held in output after the detector has left window behind: the
\* detector pushes to and shifts from its emotionHistory array in place, so
\* a signal whose history is that very array shows the same entries.
SignalSeeing(window) ==
    IF "history" \in aliased
    THEN [output EXCEPT !.value.history = window]
    ELSE output

\* the interval callback from its await on: detections is the classifier's
\* answer (NULL: no face, or the classifier threw and the error was logged);
\* no callback was passed, or the consumer does not keep the signal, so the
\* timestamp of the entry is the one reading that is kept
TickFinish(detections) ==
    /\ inFlight > 0
    /\ inFlight' = inFlight - 1
    /\ IF detections # NULL
       THEN /\ emotionHistory' =
                  PushWindow(emotionHistory, ProcessFaceExpressions(detections.expressions, now))
            /\ now' = now + 1
       ELSE UNCHANGED <<emotionHistory, now>>
    /\ output' = SignalSeeing(emotionHistory')
    /\ UNCHANGED <<currentState, isRunning, detectionInterval, stream, timers>>
    /\ UNCHANGED startVars
    /\ UNCHANGED <<snapshot, aliased>>

\* the interval callback from its await on, with a face detected and a
\* callback whose consumer keeps the signal it is given: the clock is read
\* for the timestamp of the entry, and then for the lastUpdate of the signal
TickFinishNotifying(detections) ==
    /\ inFlight > 0
    /\ detections # NULL
    /\ inFlight' = inFlight - 1
    /\ \E stamp \in EarlierReadings(now) :
          emotionHistory' =
              PushWindow(emotionHistory,
                         ProcessFaceExpressions(detections.expressions, stamp))
    /\ output' = [op |-> "onEmotionDetected",
                  value |-> GetSmoothedEmotion(emotionHistory', now)]
    /\ aliased' = aliased \cup {"history"}
    /\ now' = now + 1
    /\ UNCHANGED <<currentState, isRunning, detectionInterval, stream, timers>>
    /\ UNCHANGED startVars
    /\ UNCHANGED snapshot

\* stopDetection(): clears the interval whose handle is held
StopDetectionBody ==
    /\ isRunning' = FALSE
    /\ timers' = IF detectionInterval THEN timers - 1 ELSE timers
    /\ detectionInterval' = FALSE
    /\ stream' = FALSE
    /\ emotionHistory' = <<>>
    /\ aliased' = aliased \ {"history"}
    /\ UNCHANGED <<currentState, inFlight, modelsLoaded, now>>
    /\ UNCHANGED <<snapshot, output>>

\* stopDetection() leaves the suspended calls alone: it removes no
\* loadedmetadata handler and cancels no pending promise
StopDetection ==
    /\ StopDetectionBody
    /\ UNCHANGED calls

\* clearHistory(): emotionHistory is a new, empty array
ClearHistory ==
    /\ emotionHistory' = <<>>
    /\ aliased' = aliased \ {"history"}
    /\ UNCHANGED <<currentState, isRunning, detectionInterval, stream, timers,
                   inFlight, now>>
    /\ UNCHANGED startVars
    /\ UNCHANGED <<snapshot, output>>

\* getCurrentEmotion(): the history of the result is the emotionHistory
\* array itself, or a new empty array when the window is empty
GetCurrentEmotion ==
    /\ output' = [op |-> "getCurrentEmotion",
                  value |-> GetSmoothedEmotion(emotionHistory, now)]
    /\ aliased' = IF Len(emotionHistory) = 0
                  THEN aliased \ {"history"}
                  ELSE aliased \cup {"history"}
    /\ now' = now + 1
    /\ UNCHANGED <<currentState, snapshot>>
    /\ UNCHANGED detectorVars

\* the holder of a signal calls pop() on its history
ConsumerPopsHistory ==
    /\ output # NULL
    /\ output.op \in {"getCurrentEmotion", "onEmotionDetected"}
    /\ Len(output.value.history) > 0
    /\ output' =
          [output EXCEPT !.value.history =
              SubSeq(output.value.history, 1, Len(output.value.history) - 1)]
    /\ emotionHistory' =
          IF "history" \in aliased THEN output'.value.history ELSE emotionHistory
    /\ UNCHANGED <<currentState, isRunning, detectionInterval, stream, timers,
                   inFlight, now, snapshot, aliased>>
    /\ UNCHANGED startVars

-----------------------------------------------------------------------------
(* Specifications *)

\* the fusion engine under every input
Next ==
    \/ (now <= MaxClock /\ \E f \in FacialInputs : UpdateFacialEmotion(f)
            /\ UNCHANGED webcamVars)
    \/ (now <= MaxClock /\ \E v \in VoiceInputs : UpdateVoiceEmotion(v)
            /\ UNCHANGED webcamVars)
    \/ (now <= MaxClock /\ \E x \in TextInputs : UpdateTextEmotion(x)
            /\ UNCHANGED webcamVars)
    \/ (now <= MaxClock /\ \E d \in Durations : UpdateSessionDuration(d)
            /\ UNCHANGED webcamVars)
    \/ (now <= MaxClock /\ Reset /\ UNCHANGED webcamVars)

Spec == Init /\ [][Next]_vars

\* the detector
\* the smoother under one kind of detection: the entries of the window differ
\* by their timestamps
SmootherDetections == {Detected(RawHappy), NULL}

NextSmoother ==
    \/ (Initialize /\ UNCHANGED webcamVars)
    \/ (RequestCameraAccess /\ UNCHANGED webcamVars)
    \/ (StartDetection /\ UNCHANGED webcamVars)
    \/ (\E by \in {"alone", "start"} : \E loaded \in BOOLEAN :
            ModelsSettle(by, loaded) /\ UNCHANGED webcamVars)
    \/ (StartDetectionAfterInitialize /\ UNCHANGED webcamVars)
    \/ (\E by \in {"alone", "start"} : \E granted \in BOOLEAN :
            CameraSettles(by, granted) /\ UNCHANGED webcamVars)
    \/ (StartDetectionAfterCamera("start") /\ UNCHANGED webcamVars)
    \/ (MetadataLoaded("start") /\ UNCHANGED webcamVars)
    \/ (TickStart /\ UNCHANGED webcamVars)
    \/ (now <= MaxTicks /\ \E d \in SmootherDetections : TickFinish(d)
            /\ UNCHANGED webcamVars)
    \/ (StopDetection /\ UNCHANGED webcamVars)
    \/ (ClearHistory /\ UNCHANGED webcamVars)

SpecSmoother == Init /\ [][NextSmoother]_vars

\* a detector that runs, under detections that give one label different
\* confidences, and a caller that polls getCurrentEmotion(), clears the
\* history and stops the detection: the state from which they start is the
\* one in which the promise of startDetection() is resolved
VoteDetections == {Detected(RawHappy), Detected(RawSad), Detected(RawJoy), NULL}

NextVote ==
    \/ (TickStart /\ UNCHANGED webcamVars)
    \/ (now <= MaxVoteClock /\ \E d \in VoteDetections : TickFinish(d)
            /\ UNCHANGED webcamVars)
    \/ (StopDetection /\ UNCHANGED webcamVars)
    \/ (ClearHistory /\ UNCHANGED webcamVars)
    \/ (now <= MaxVoteClock /\ GetCurrentEmotion /\ UNCHANGED webcamVars)

SpecVote == InitRunning /\ [][NextVote]_vars

\* the detector and a consumer that keeps signals it was given
EmitDetections == {Detected(RawHappy), Detected(RawSad), NULL}

NextEmit ==
    \/ (Initialize /\ UNCHANGED webcamVars)
    \/ (RequestCameraAccess /\ UNCHANGED webcamVars)
    \/ (StartDetection /\ UNCHANGED webcamVars)
    \/ (\E by \in {"alone", "start"} : \E loaded \in BOOLEAN :
            ModelsSettle(by, loaded) /\ UNCHANGED webcamVars)
    \/ (StartDetectionAfterInitialize /\ UNCHANGED webcamVars)
    \/ (\E by \in {"alone", "start"} : \E granted \in BOOLEAN :
            CameraSettles(by, granted) /\ UNCHANGED webcamVars)
    \/ (StartDetectionAfterCamera("start") /\ UNCHANGED webcamVars)
    \/ (MetadataLoaded("start") /\ UNCHANGED webcamVars)
    \/ (TickStart /\ UNCHANGED webcamVars)
    \/ (now <= MaxEmitClock /\ \E d \in EmitDetections : TickFinish(d)
            /\ UNCHANGED webcamVars)
    \/ (now <= MaxEmitClock /\ \E d \in EmitDetections : TickFinishNotifying(d)
            /\ UNCHANGED webcamVars)
    \/ (StopDetection /\ UNCHANGED webcamVars)
    \/ (ClearHistory /\ UNCHANGED webcamVars)
    \/ (now <= MaxEmitClock /\ GetCurrentEmotion /\ UNCHANGED webcamVars)
    \/ (ConsumerPopsHistory /\ UNCHANGED webcamVars)

SpecEmit == Init /\ [][NextEmit]_vars

(***************************************************************************)
(* WebcamCapture.tsx: the component that drives the detector               *)
(***************************************************************************)

\* the messages of the errors that a failed loading of the models or a
\* denied camera can carry: err.message may be empty, and what is thrown
\* and is no Error gives 'Failed to access camera'
ErrorMessages == {"", "Failed to access camera"}

\* !!error: null and the empty message do not count as an error
WebcamHasError == webcamError # NULL /\ webcamError.message # ""

\* isInitializing: a startDetection() of the mounted component has not
\* reached its finally block
WebcamIsInitializing ==
    \E awaited \in {"models", "initialized", "camera", "granted", "metadata",
                    "started"} :
        calls[<<"webcam", awaited>>] > 0

\* startDetection() of the component up to its first suspension:
\* setError(null), then the await of initialize(), which suspends the call
\* also when the models are loaded and initialize() returns at once
WebcamStartDetection ==
    /\ Suspended(calls) < MaxCalls
    /\ webcamError' = NULL
    /\ calls' = IF modelsLoaded
                THEN Arrive(calls, <<"webcam", "initialized">>)
                ELSE Arrive(calls, <<"webcam", "models">>)
    /\ UNCHANGED <<currentState, emotionHistory, isRunning, detectionInterval,
                   stream, timers, inFlight, modelsLoaded, now>>
    /\ UNCHANGED callerVars
    /\ UNCHANGED webcamIsRunning

\* the loading of the models settles for the component: a failure is
\* caught, and its message is the error
WebcamModelsSettle(loaded, message) ==
    /\ ModelsSettle("webcam", loaded)
    /\ webcamError' = IF loaded THEN webcamError ELSE [message |-> message]
    /\ UNCHANGED <<mounted, webcamIsRunning, cleanupIsRunning, onEmotionDetected>>

\* startDetection() of the component goes on after its await of
\* initialize(): the video element is in the ref of a mounted component,
\* and startDetection() of the detector runs up to its first suspension,
\* with the models loaded
WebcamAfterInitialize ==
    /\ calls[<<"webcam", "initialized">>] > 0
    /\ EnterDetection("webcam", Leave(calls, <<"webcam", "initialized">>))
    /\ UNCHANGED <<currentState, emotionHistory, detectionInterval, stream,
                   timers, inFlight, modelsLoaded, now>>
    /\ UNCHANGED callerVars
    /\ UNCHANGED webcamVars

\* getUserMedia settles for the component: a denial is caught, and its
\* message is the error
WebcamCameraSettles(granted, message) ==
    /\ CameraSettles("webcam", granted)
    /\ webcamError' = IF granted THEN webcamError ELSE [message |-> message]
    /\ UNCHANGED <<mounted, webcamIsRunning, cleanupIsRunning, onEmotionDetected>>

\* startDetection() of the component goes on after its await of
\* startDetection() of the detector: setIsRunning(true)
WebcamAfterStart ==
    /\ calls[<<"webcam", "started">>] > 0
    /\ calls' = Leave(calls, <<"webcam", "started">>)
    /\ webcamIsRunning' = TRUE
    /\ UNCHANGED <<currentState, emotionHistory, isRunning, detectionInterval,
                   stream, timers, inFlight, modelsLoaded, now>>
    /\ UNCHANGED callerVars
    /\ UNCHANGED <<mounted, cleanupIsRunning, webcamError, onEmotionDetected>>

\* stopDetection() of the component up to its suspension: stopDetection()
\* of the detector, whose promise is awaited
WebcamStopDetection ==
    /\ Suspended(calls) < MaxCalls
    /\ StopDetectionBody
    /\ calls' = Arrive(calls, <<"webcam", "stopped">>)
    /\ UNCHANGED <<webcamIsRunning, webcamError>>

\* stopDetection() of the component goes on after its await:
\* setIsRunning(false)
WebcamAfterStop ==
    /\ calls[<<"webcam", "stopped">>] > 0
    /\ calls' = Leave(calls, <<"webcam", "stopped">>)
    /\ webcamIsRunning' = FALSE
    /\ UNCHANGED <<currentState, emotionHistory, isRunning, detectionInterval,
                   stream, timers, inFlight, modelsLoaded, now>>
    /\ UNCHANGED callerVars
    /\ UNCHANGED <<mounted, cleanupIsRunning, webcamError, onEmotionDetected>>

\* the component is rendered with or without the onEmotionDetected prop,
\* and the mount effect runs, once: with autoStart it starts detection; the
\* cleanup it returns reads the isRunning of the render that created it,
\* the first one, where isRunning is the useState(false) initial value
WebcamMount(autoStart, passed) ==
    /\ ~mounted
    /\ mounted' = TRUE
    /\ onEmotionDetected' = passed
    /\ cleanupIsRunning' = FALSE
    /\ IF autoStart
       THEN WebcamStartDetection
       ELSE /\ UNCHANGED <<webcamIsRunning, webcamError>>
            /\ UNCHANGED <<currentState, now>>
            /\ UNCHANGED detectorVars
            /\ UNCHANGED callerVars

\* toggleDetection(): the Start/Stop button, which is disabled while the
\* component is initializing and while its error is a message that is not
\* empty
WebcamToggleDetection ==
    /\ mounted
    /\ ~WebcamIsInitializing
    /\ ~WebcamHasError
    /\ IF webcamIsRunning THEN WebcamStopDetection ELSE WebcamStartDetection
    /\ UNCHANGED <<mounted, cleanupIsRunning, onEmotionDetected>>

\* the polling effect: getCurrentEmotion() every 500 ms while the component
\* is mounted with the onEmotionDetected prop and its isRunning is true
WebcamPoll ==
    /\ mounted
    /\ onEmotionDetected
    /\ webcamIsRunning
    /\ GetCurrentEmotion
    /\ UNCHANGED webcamVars

\* the calls of a component that is unmounted go on in the detector: the
\* setters of the component do nothing any more, and its video element is
\* gone from the ref, so a call that waits for the models or for its
\* continuation after initialize() ends there, and one that is past
\* startDetection() of the detector or stopDetection() has nothing left to
\* do
Orphaned(c) ==
    [site \in Sites |->
        CASE site[1] = "webcam" -> 0
          [] site = <<"alone", "models">> -> c[site] + c[<<"webcam", "models">>]
          [] site = <<"start", "camera">> -> c[site] + c[<<"webcam", "camera">>]
          [] site = <<"start", "granted">> -> c[site] + c[<<"webcam", "granted">>]
          [] site = <<"start", "metadata">> -> c[site] + c[<<"webcam", "metadata">>]
          [] OTHER -> c[site]]

\* unmount: the cleanup of the mount effect runs, and calls stopDetection()
\* only if the isRunning it closed over is true; the state of the component
\* is discarded
WebcamUnmount ==
    /\ mounted
    /\ mounted' = FALSE
    /\ webcamIsRunning' = FALSE
    /\ webcamError' = NULL
    /\ onEmotionDetected' = FALSE
    /\ UNCHANGED cleanupIsRunning
    /\ calls' = Orphaned(calls)
    /\ IF cleanupIsRunning
       THEN StopDetectionBody
       ELSE /\ UNCHANGED <<currentState, emotionHistory, isRunning,
                           detectionInterval, stream, timers, inFlight,
                           modelsLoaded, now>>
            /\ UNCHANGED callerVars

WebcamDetections == {Detected(RawHappy), NULL}

NextWebcam ==
    \/ (\E autoStart \in BOOLEAN : \E passed \in BOOLEAN :
            WebcamMount(autoStart, passed))
    \/ WebcamToggleDetection
    \/ (\E loaded \in BOOLEAN : \E message \in ErrorMessages :
            WebcamModelsSettle(loaded, message))
    \/ WebcamAfterInitialize
    \/ (\E granted \in BOOLEAN : \E message \in ErrorMessages :
            WebcamCameraSettles(granted, message))
    \/ (StartDetectionAfterCamera("webcam") /\ UNCHANGED webcamVars)
    \/ (MetadataLoaded("webcam") /\ UNCHANGED webcamVars)
    \/ WebcamAfterStart
    \/ WebcamAfterStop
    \/ (now <= MaxWebcamClock /\ WebcamPoll)
    \/ WebcamUnmount
    \/ (\E by \in {"alone", "start"} : \E loaded \in BOOLEAN :
            ModelsSettle(by, loaded) /\ UNCHANGED webcamVars)
    \/ (\E by \in {"alone", "start"} : \E granted \in BOOLEAN :
            CameraSettles(by, granted) /\ UNCHANGED webcamVars)
    \/ (StartDetectionAfterCamera("start") /\ UNCHANGED webcamVars)
    \/ (MetadataLoaded("start") /\ UNCHANGED webcamVars)
    \/ (TickStart /\ UNCHANGED webcamVars)
    \/ (now <= MaxWebcamClock /\ \E d \in WebcamDetections : TickFinish(d)
            /\ UNCHANGED webcamVars)
    \/ (now <= MaxWebcamClock /\ \E d \in WebcamDetections : TickFinishNotifying(d)
            /\ UNCHANGED webcamVars)

SpecWebcam == Init /\ [][NextWebcam]_vars

\* the detector under raw distributions in which any two categories tie at
\* 0.5, or any category leads any other by 0.6 to 0.4, the object holding
\* the two categories first, in either order, and the other five after them
RawCategories ==
    {"neutral", "happy", "sad", "angry", "fearful", "disgusted", "surprised"}

NotAmong(cs, c) == c \notin cs

TwoCategories(c1, p1, c2, p2) ==
    LET rest == SelectSeq(<<"neutral", "happy", "sad", "angry", "fearful",
                            "disgusted", "surprised">>,
                          LAMBDA c : NotAmong({c1, c2}, c))
    IN  <<Entry(c1, Tenths(p1)), Entry(c2, Tenths(p2))>>
        \o [i \in 1..Len(rest) |-> Entry(rest[i], Zero)]

ExpressionDetections ==
    UNION {{Detected(TwoCategories(c1, 5, c2, 5)),
            Detected(TwoCategories(c1, 6, c2, 4))} :
              <<c1, c2>> \in {pair \in RawCategories \X RawCategories :
                                 pair[1] # pair[2]}}

\* the sampling ticks of a detector that runs: the state from which they
\* start is the one in which the promise of startDetection() is resolved
NextExpressions ==
    \/ (TickStart /\ UNCHANGED webcamVars)
    \/ (now <= MaxExpressionClock /\ \E d \in ExpressionDetections : TickFinish(d)
            /\ UNCHANGED webcamVars)
    \/ (StopDetection /\ UNCHANGED webcamVars)

SpecExpressions == InitRunning /\ [][NextExpressions]_vars

\* the fusion engine over long runs: one reading per channel, all of one label
LongRunFacial == {GetSmoothedEmotion(<<ProcessFaceExpressions(RawHappy, 0)>>, 0)}
LongRunVoice ==
    {[emotion |-> "happy", confidence |-> One, tone |-> "bright", timestamp |-> 0]}
LongRunText == {[emotion |-> "happy", confidence |-> Half, timestamp |-> 0]}
LongRunDurations == {0}

NextHistory ==
    \/ (now <= MaxMerges /\ \E f \in LongRunFacial : UpdateFacialEmotion(f)
            /\ UNCHANGED webcamVars)
    \/ (now <= MaxMerges /\ \E v \in LongRunVoice : UpdateVoiceEmotion(v)
            /\ UNCHANGED webcamVars)
    \/ (now <= MaxMerges /\ \E x \in LongRunText : UpdateTextEmotion(x)
            /\ UNCHANGED webcamVars)
    \/ (now <= MaxMerges /\ \E d \in LongRunDurations : UpdateSessionDuration(d)
            /\ UNCHANGED webcamVars)
    \/ (now <= MaxMerges /\ Reset /\ UNCHANGED webcamVars)

SpecHistory == Init /\ [][NextHistory]_vars

\* both components side by side, each under a few inputs: the fusion engine
\* with all its operations, the detector started by startDetection(),
\* sampled, stopped and cleared
SystemFacial ==
    {GetSmoothedEmotion(<<ProcessFaceExpressions(x, 0)>>, 0) : x \in {RawSad}}
SystemVoice ==
    {[emotion |-> "tired", confidence |-> Half, tone |-> "flat", timestamp |-> 0]}
SystemText == {[emotion |-> "happy", confidence |-> One, timestamp |-> 0]}
SystemDurations == {FatigueThreshold2 + 1}
SystemDetections == {Detected(RawSad), NULL}

NextSystem ==
    \/ (now <= MaxSystemClock /\ \E f \in SystemFacial : UpdateFacialEmotion(f)
            /\ UNCHANGED webcamVars)
    \/ (now <= MaxSystemClock /\ \E v \in SystemVoice : UpdateVoiceEmotion(v)
            /\ UNCHANGED webcamVars)
    \/ (now <= MaxSystemClock /\ \E x \in SystemText : UpdateTextEmotion(x)
            /\ UNCHANGED webcamVars)
    \/ (now <= MaxSystemClock /\ \E d \in SystemDurations : UpdateSessionDuration(d)
            /\ UNCHANGED webcamVars)
    \/ (now <= MaxSystemClock /\ Reset /\ UNCHANGED webcamVars)
    \/ (now <= MaxSystemClock /\ \E d \in SystemDetections : TickFinish(d)
            /\ UNCHANGED webcamVars)
    \/ (StartDetection /\ UNCHANGED webcamVars)
    \/ (\E loaded \in BOOLEAN : ModelsSettle("start", loaded)
            /\ UNCHANGED webcamVars)
    \/ (StartDetectionAfterInitialize /\ UNCHANGED webcamVars)
    \/ (\E granted \in BOOLEAN : CameraSettles("start", granted)
            /\ UNCHANGED webcamVars)
    \/ (StartDetectionAfterCamera("start") /\ UNCHANGED webcamVars)
    \/ (MetadataLoaded("start") /\ UNCHANGED webcamVars)
    \/ (TickStart /\ UNCHANGED webcamVars)
    \/ (StopDetection /\ UNCHANGED webcamVars)
    \/ (ClearHistory /\ UNCHANGED webcamVars)

SpecSystem == Init /\ [][NextSystem]_vars

\* the fusion engine and a caller that keeps what getCurrentState() returned
CallerLabels == {"confused"}
ChannelSlots == {"facialEmotion", "voiceEmotion", "textEmotion"}

NextSnapshot ==
    \/ (now <= MaxSnapshotClock /\ \E f \in SystemFacial : UpdateFacialEmotion(f)
            /\ UNCHANGED webcamVars)
    \/ (now <= MaxSnapshotClock /\ \E v \in SystemVoice : UpdateVoiceEmotion(v)
            /\ UNCHANGED webcamVars)
    \/ (now <= MaxSnapshotClock /\ \E x \in SystemText : UpdateTextEmotion(x)
            /\ UNCHANGED webcamVars)
    \/ (now <= MaxSnapshotClock /\ \E d \in SystemDurations : UpdateSessionDuration(d)
            /\ UNCHANGED webcamVars)
    \/ (now <= MaxSnapshotClock /\ Reset /\ UNCHANGED webcamVars)
    \/ (GetCurrentState /\ UNCHANGED webcamVars)
    \/ (\E l \in CallerLabels : CallerAssignsMergedEmotion(l)
            /\ UNCHANGED webcamVars)
    \/ (CallerPopsHistory /\ UNCHANGED webcamVars)
    \/ (\E f \in ChannelSlots : \E l \in CallerLabels : CallerRelabelsReading(f, l)
            /\ UNCHANGED webcamVars)

SpecSnapshot == Init /\ [][NextSnapshot]_vars

\* the fusion engine under text readings of every label, and its queries
AllLabels == CanonicalLabels \cup {"bored", "constructor", "7"}
LabelledText ==
    {[emotion |-> l, confidence |-> One, timestamp |-> 0] : l \in AllLabels}

NextLabels ==
    \/ (now <= MaxLabelClock /\ \E x \in LabelledText : UpdateTextEmotion(x)
            /\ UNCHANGED webcamVars)
    \/ (now <= MaxLabelClock /\ Reset /\ UNCHANGED webcamVars)
    \/ (GetResponseGuidelines /\ UNCHANGED webcamVars)
    \/ (GetEmotionColorScheme /\ UNCHANGED webcamVars)

SpecLabels == Init /\ [][NextLabels]_vars

\* The fusion engine with its history at the limit.  The state from which
\* it starts is the one that updateVoiceEmotion(), called with one reading
\* at each of the clock readings 1 to emotionHistoryLimit - 1, leaves
\* behind: each call has merged to the label of the reading, with confidence
\* 1, and has logged it, so the next push fills the history and the one
\* after evicts.
StateNearLimit ==
    RecomputeMergedEmotion(
        [InitialState(0) EXCEPT
            !.voiceEmotion = CHOOSE v \in LongRunVoice : TRUE,
            !.lastUpdate = emotionHistoryLimit - 1,
            !.mergedEmotion = "happy",
            !.confidence = One,
            !.emotionHistory =
                [i \in 1..(emotionHistoryLimit - 2) |->
                    [emotion |-> "happy", source |-> "merged", timestamp |-> i]]],
        emotionHistoryLimit - 1)

InitNearLimit ==
    /\ currentState = StateNearLimit
    /\ emotionHistory = <<>>
    /\ isRunning = FALSE
    /\ detectionInterval = FALSE
    /\ stream = FALSE
    /\ timers = 0
    /\ inFlight = 0
    /\ modelsLoaded = FALSE
    /\ calls = [site \in Sites |-> 0]
    /\ now = emotionHistoryLimit
    /\ snapshot = NULL
    /\ aliased = {}
    /\ output = NULL
    /\ mounted = FALSE
    /\ webcamIsRunning = FALSE
    /\ cleanupIsRunning = FALSE
    /\ webcamError = NULL
    /\ onEmotionDetected = FALSE

NextEviction ==
    \/ (now < emotionHistoryLimit + MaxEviction
            /\ \E f \in FacialInputs : UpdateFacialEmotion(f)
            /\ UNCHANGED webcamVars)
    \/ (now < emotionHistoryLimit + MaxEviction
            /\ \E v \in VoiceInputs : UpdateVoiceEmotion(v)
            /\ UNCHANGED webcamVars)
    \/ (now < emotionHistoryLimit + MaxEviction
            /\ \E x \in TextInputs : UpdateTextEmotion(x)
            /\ UNCHANGED webcamVars)
    \/ (now < emotionHistoryLimit + MaxEviction
            /\ \E d \in Durations : UpdateSessionDuration(d)
            /\ UNCHANGED webcamVars)
    \/ (now < emotionHistoryLimit + MaxEviction /\ Reset /\ UNCHANGED webcamVars)

SpecEviction == InitNearLimit /\ [][NextEviction]_vars

-----------------------------------------------------------------------------
(* Properties *)

\* the number map m holds under its own key k, 0 when it holds none
ScoreOf(m, k) ==
    IF OwnIndexOf(m, k) # 0 /\ "val" \in DOMAIN m[OwnIndexOf(m, k)]
    THEN ValueOf(m[OwnIndexOf(m, k)])
    ELSE Zero

\* x is the decimal x.val / Scale to within 2^-50, which is four times the
\* distance between neighbouring doubles just below 2
WithinRounding(x) == -(Scale * 1024) <= x.err /\ x.err <= Scale * 1024

\* x is n / Scale to within 2^-50
IsNear(x, n) == x.val = n /\ WithinRounding(x)

ChannelsPresent(st) == Len(CollectEmotions(st)) > 0

Min(a, b) == IF a < b THEN a ELSE b

\* the entries of log carry the most recent Len(log) clock readings, in order
CarriesLatestReadings(log) ==
    \A i \in 1..Len(log) : log[i].timestamp = now - Len(log) + i - 1

\* new is old with one entry pushed at its end, the oldest entry of old
\* having been dropped when old already held limit entries
PushedFifo(old, new, limit) ==
    /\ Len(new) = Min(Len(old) + 1, limit)
    /\ new[Len(new)].timestamp = now
    /\ \A i \in 1..(Len(new) - 1) : new[i] = old[i + Len(old) + 1 - Len(new)]

WindowIsRecent ==
    /\ Len(emotionHistory) <= maxHistorySize
    /\ CarriesLatestReadings(emotionHistory)

IngestIsFifo ==
    (emotionHistory' # emotionHistory /\ emotionHistory' # <<>>)
        => PushedFifo(emotionHistory, emotionHistory', maxHistorySize)

\* C1: under every sequence of sampling ticks, clearHistory and stopDetection
\* calls the window holds at most 10 entries, they are the most recent
\* ingests in arrival order, and an ingest into a full window drops exactly
\* the oldest entry.
C1_WindowFifo == []WindowIsRecent /\ [][IngestIsFifo]_vars

\* an eleventh ingest has evicted the first one
C1_Witness ==
    /\ Len(emotionHistory) = maxHistorySize
    /\ emotionHistory[1].timestamp = 2
    /\ now = maxHistorySize + 2

HistoryIsRecent ==
    /\ Len(currentState.emotionHistory) <= emotionHistoryLimit
    /\ CarriesLatestReadings(currentState.emotionHistory)
    /\ \A i \in 1..Len(currentState.emotionHistory) :
          currentState.emotionHistory[i].source = "merged"

MergeIsFifo ==
    (currentState'.emotionHistory # currentState.emotionHistory
        /\ currentState'.emotionHistory # <<>>)
        => PushedFifo(currentState.emotionHistory, currentState'.emotionHistory,
                      emotionHistoryLimit)

\* C2: under every sequence of channel updates, duration updates and resets
\* the fusion history holds at most 50 entries, they are the most recent
\* merges in order, and a merge into a full history drops exactly the oldest
\* entry (after 51 merges the first merge entry is gone).
C2_HistoryFifo == []HistoryIsRecent /\ [][MergeIsFifo]_vars

\* a 51st merge has evicted the first one
C2_Witness ==
    /\ Len(currentState.emotionHistory) = emotionHistoryLimit
    /\ currentState.emotionHistory[1].timestamp = 2
    /\ now = emotionHistoryLimit + 2

InUnitInterval(x) == ~Less(x, Zero) /\ ~Less(One, x)

\* C3: with every supplied probability and confidence in [0,1], the smoothed
\* facial confidence and the fusion confidence are in [0,1], and with a
\* channel present the fusion confidence is the post-bias total of the
\* merged label capped at 1.
C3_ConfidenceInRange ==
    /\ InUnitInterval(GetSmoothedEmotion(emotionHistory, now).confidence)
    /\ InUnitInterval(currentState.confidence)
    /\ ChannelsPresent(currentState) =>
          currentState.confidence =
              MathMin(ScoreOf(PostBiasScores(currentState), currentState.mergedEmotion),
                      One)

\* the cap bites (the winner's post-bias total exceeds 1) while the smoother
\* averages over a window that is not empty
C3_Witness ==
    /\ ChannelsPresent(currentState)
    /\ Less(One, ScoreOf(PostBiasScores(currentState), currentState.mergedEmotion))
    /\ currentState.confidence = One
    /\ Len(emotionHistory) >= 1

\* the labels reported by the channels that are present
LabelsPresent(st) ==
    {CollectEmotions(st)[i].emotion : i \in 1..Len(CollectEmotions(st))}

\* C4: with canonical labels on every reading, mergedEmotion is a canonical
\* label, and it is neutral while no channel is present, whatever session
\* durations have been set.
C4_MergedIsCanonical ==
    /\ currentState.mergedEmotion \in CanonicalLabels
    /\ ~ChannelsPresent(currentState) => currentState.mergedEmotion = "neutral"

\* no channel has reported and a long session duration has been set
C4_Witness ==
    /\ ~ChannelsPresent(currentState)
    /\ currentState.sessionDuration = FatigueThreshold1 + 1
    /\ currentState.lastUpdate = 0
    /\ currentState.mergedEmotion = "neutral"

\* C5: a recompute with all three channels absent leaves (neutral, 0.5) for
\* every session duration and skips the rest: no fatigue bias, no history
\* entry (the history of a state without channels is empty).
C5_NoChannelDefault ==
    ~ChannelsPresent(currentState) =>
        /\ currentState.mergedEmotion = "neutral"
        /\ currentState.confidence = Half
        /\ currentState.emotionHistory = <<>>

\* after a reset, a recompute ran without channels at a duration above both
\* thresholds
C5_Witness ==
    /\ ~ChannelsPresent(currentState)
    /\ currentState.sessionDuration = FatigueThreshold2 + 1
    /\ currentState.lastUpdate > 0

\* C6: when the present channels all report one label, that label is the
\* merged label and the merged confidence is exactly 1, for every duration.
C6_AgreementGivesOne ==
    (ChannelsPresent(currentState) /\ Cardinality(LabelsPresent(currentState)) = 1)
        => /\ currentState.mergedEmotion \in LabelsPresent(currentState)
           /\ currentState.confidence = One

\* facial and voice agree on happy, text is absent and the duration is above
\* both thresholds
C6_Witness ==
    /\ currentState.facialEmotion # NULL
    /\ currentState.voiceEmotion # NULL
    /\ currentState.textEmotion = NULL
    /\ LabelsPresent(currentState) = {"happy"}
    /\ currentState.sessionDuration > FatigueThreshold2
    /\ currentState.mergedEmotion = "happy"
    /\ currentState.confidence = One

AllPresent(st) ==
    st.facialEmotion # NULL /\ st.voiceEmotion # NULL /\ st.textEmotion # NULL

\* C7: three present channels with pairwise different labels and a duration
\* of at most 2700 s give the facial label with confidence 0.5.
C7_DisagreementGivesFacial ==
    (/\ AllPresent(currentState)
     /\ Cardinality(LabelsPresent(currentState)) = 3
     /\ currentState.sessionDuration <= 2700)
        => /\ currentState.mergedEmotion = currentState.facialEmotion.emotion
           /\ currentState.confidence = Half

\* facial stressed, voice calm, text happy at exactly 2700 s
C7_Witness ==
    /\ AllPresent(currentState)
    /\ currentState.facialEmotion.emotion = "stressed"
    /\ currentState.voiceEmotion.emotion = "calm"
    /\ currentState.textEmotion.emotion = "happy"
    /\ currentState.sessionDuration = 2700
    /\ currentState.mergedEmotion = "stressed"
    /\ currentState.confidence = Half

\* 0, 0.10 or 0.25 by the session duration, in units of 1 / Scale
ExpectedBias(d) ==
    IF d <= 2700 THEN 0 ELSE IF d <= 5400 THEN Scale \div 10 ELSE Scale \div 4

\* the sum of the decimals of the scores, in units of 1 / Scale
RECURSIVE SumOfScores(_, _)
SumOfScores(scores, i) ==
    IF i > Len(scores) THEN 0 ELSE scores[i].val + SumOfScores(scores, i + 1)

\* C8: with a channel present the tired total is its normalized total plus
\* 0 up to 2700 s, 0.10 above 2700 s and up to 5400 s, 0.25 above 5400 s, as
\* decimals and to within the rounding of the doubles; the totals were
\* normalized (they sum to 1) before the bias, and every other label keeps
\* its normalized total, the very double.
C8_FatigueBias ==
    LET normalized == NormalizedScores(currentState)
        biased == PostBiasScores(currentState)
        bias == ExpectedBias(currentState.sessionDuration)
    IN  ChannelsPresent(currentState) =>
            /\ SumOfScores(normalized, 1) = Scale
            /\ \A i \in 1..Len(normalized) : WithinRounding(normalized[i])
            /\ IsNear(ScoreOf(biased, "tired"),
                      ScoreOf(normalized, "tired").val + bias)
            /\ bias = 0 => ScoreOf(biased, "tired") = ScoreOf(normalized, "tired")
            /\ \A l \in CanonicalLabels \ {"tired"} :
                  ScoreOf(biased, l) = ScoreOf(normalized, l)
            /\ currentState.mergedEmotion = "tired" =>
                  IsNear(currentState.confidence,
                         Min(ScoreOf(normalized, "tired").val + bias, Scale))

\* no channel reports tired, the duration is exactly at the second threshold
\* and the tired bucket holds 0.10
C8_Witness ==
    /\ ChannelsPresent(currentState)
    /\ "tired" \notin LabelsPresent(currentState)
    /\ currentState.sessionDuration = 5400
    /\ ScoreOf(PostBiasScores(currentState), "tired") = Tenths(1)

NeutralFaceTiredVoice(st) ==
    /\ st.facialEmotion # NULL /\ st.facialEmotion.emotion = "neutral"
    /\ st.voiceEmotion # NULL /\ st.voiceEmotion.emotion = "tired"

\* C9 as stated: with facial neutral, voice tired and text absent the merged
\* label is neutral at duration 0 and tired at a duration above both
\* thresholds.
C9_AsStated ==
    (NeutralFaceTiredVoice(currentState) /\ currentState.textEmotion = NULL)
        => /\ currentState.sessionDuration = 0
                => currentState.mergedEmotion = "neutral"
           /\ currentState.sessionDuration > 5400
                => currentState.mergedEmotion = "tired"

\* C9 amended: with facial neutral, voice tired and text absent the merged
\* label is neutral at every duration (the full bias lifts tired from 0.375
\* to 0.625, a tie that neutral keeps); with text tired as well the merged
\* label is neutral up to 2700 s and tired above.
C9_BiasFlipsCloseTotals ==
    NeutralFaceTiredVoice(currentState) =>
        /\ currentState.textEmotion = NULL
              => currentState.mergedEmotion = "neutral"
        /\ (currentState.textEmotion # NULL
                /\ currentState.textEmotion.emotion = "tired")
              => currentState.mergedEmotion =
                    IF currentState.sessionDuration <= 2700
                    THEN "neutral" ELSE "tired"

\* the bias has flipped the winner: facial neutral against voice and text
\* tired, past the first threshold
C9_Witness ==
    /\ NeutralFaceTiredVoice(currentState)
    /\ currentState.textEmotion # NULL
    /\ currentState.textEmotion.emotion = "tired"
    /\ currentState.sessionDuration > 2700
    /\ currentState.mergedEmotion = "tired"

SameChannels(st1, st2) ==
    /\ st1.facialEmotion = st2.facialEmotion
    /\ st1.voiceEmotion = st2.voiceEmotion
    /\ st1.textEmotion = st2.textEmotion

\* the merged emotion and confidence are those a recompute gives for the
\* channels and the duration that are stored
MergedIsRecomputed ==
    IF ChannelsPresent(currentState)
    THEN /\ currentState.mergedEmotion =
                FindDominant(PostBiasScores(currentState)).key
         /\ currentState.confidence =
                MathMin(ValueOf(FindDominant(PostBiasScores(currentState))), One)
    ELSE /\ currentState.mergedEmotion = "neutral"
         /\ currentState.confidence = Half

\* a step that changes the stored session duration without being a reset
DurationUpdateStep ==
    /\ currentState'.sessionDuration # currentState.sessionDuration
    /\ currentState'.lastUpdate = currentState.lastUpdate

\* C10: a step that changes the stored session duration without being a
\* reset stores a duration it was given and leaves the three channel slots
\* alone, and the merged emotion and confidence are always those recomputed
\* for the duration that is stored.
C10_DurationRecomputes ==
    /\ []MergedIsRecomputed
    /\ [][DurationUpdateStep =>
              /\ SameChannels(currentState, currentState')
              /\ currentState'.sessionDuration \in Durations]_vars

\* the last merge was made by updateSessionDuration (a channel update logs
\* its merge at most one clock reading after the one it stores in
\* lastUpdate, and this merge is later) and its label differs from the
\* merge before it
C10_Witness ==
    LET h == currentState.emotionHistory
    IN  /\ Len(h) >= 2
        /\ h[Len(h)].timestamp > currentState.lastUpdate + 1
        /\ h[Len(h)].emotion # h[Len(h) - 1].emotion
        /\ currentState.mergedEmotion = h[Len(h)].emotion

\* the slots of st2 that differ from st1
SlotsWritten(st1, st2) ==
    {f \in {"facialEmotion", "voiceEmotion", "textEmotion", "sessionDuration"} :
        st1[f] # st2[f]}

\* the readings each channel update is called with
ReadingsOf(slot) ==
    IF slot = "facialEmotion" THEN FacialInputs
    ELSE IF slot = "voiceEmotion" THEN VoiceInputs
    ELSE TextInputs

\* a reset: it stamps lastUpdate and leaves no channel present
ResetStep ==
    /\ currentState'.lastUpdate # currentState.lastUpdate
    /\ ~ChannelsPresent(currentState')

\* C11: a step that is not a reset writes at most one of the three channel
\* slots and sessionDuration; a channel slot that is written holds a reading
\* of its own channel; and the step that writes sessionDuration leaves
\* lastUpdate as it was, so that a step that stamps lastUpdate leaves
\* sessionDuration unchanged.
C11_UpdateWritesOwnSlot ==
    [][~ResetStep =>
          /\ Cardinality(SlotsWritten(currentState, currentState')) <= 1
          /\ \A f \in SlotsWritten(currentState, currentState') :
                IF f = "sessionDuration"
                THEN currentState'.lastUpdate = currentState.lastUpdate
                ELSE currentState'[f] \in ReadingsOf(f)
      ]_vars

\* a text update has just run over a state that holds a facial reading, a
\* voice reading and a duration above the first threshold
C11_Witness ==
    /\ AllPresent(currentState)
    /\ currentState.sessionDuration = FatigueThreshold1 + 1
    /\ currentState.textEmotion.emotion = "tired"
    /\ currentState.voiceEmotion.emotion = "calm"
    /\ currentState.facialEmotion.emotion = "happy"
    /\ currentState.mergedEmotion = "happy"
    /\ currentState.emotionHistory[3].timestamp = now - 1
    /\ Len(currentState.emotionHistory) = 3

\* a step of the engine that leaves a channel present: a channel update, or
\* a duration update on a state that holds a reading
MergeStep ==
    /\ currentState' # currentState
    /\ ChannelsPresent(currentState')

\* C12: every channel update (and every other step that leaves a channel
\* present) leaves the history of before with exactly one entry pushed at
\* its end, the oldest one dropped when 50 were held and the other entries
\* in their order; the new entry has source merged, the merged emotion just
\* computed and the clock reading of the merge, which is not earlier than
\* the one stored in lastUpdate.
C12_UpdateLogsOneMerge ==
    [][MergeStep =>
          LET old == currentState.emotionHistory
              new == currentState'.emotionHistory
          IN  /\ PushedFifo(old, new, emotionHistoryLimit)
              /\ new[Len(new)] = [emotion |-> currentState'.mergedEmotion,
                                  source |-> "merged",
                                  timestamp |-> now]
              /\ currentState'.lastUpdate <= now
      ]_vars

\* the history holds 50 entries and has lost its oldest one; the last two
\* channel updates have logged stressed and then tired after happy, and the
\* last one read the clock for lastUpdate one reading before it logged
C12_Witness ==
    LET h == currentState.emotionHistory
    IN  /\ Len(h) = emotionHistoryLimit
        /\ h[1].timestamp = 2
        /\ h[emotionHistoryLimit - 2].emotion = "happy"
        /\ h[emotionHistoryLimit - 1].emotion = "stressed"
        /\ h[emotionHistoryLimit].emotion = "tired"
        /\ h[emotionHistoryLimit].timestamp = currentState.lastUpdate + 1
        /\ currentState.mergedEmotion = "tired"

\* C13 as stated: what getCurrentState() returned and the engine's state are
\* independent: no step changes both, so what a caller does to the returned
\* object leaves currentState as it was and what the engine does later
\* leaves the returned object as it was.
C13_AsStated ==
    [][snapshot # NULL => (snapshot' = snapshot \/ currentState' = currentState)]_vars

\* C14: reset() from every reachable state leaves all three channels
\* absent, duration 0, merged emotion neutral, confidence 0.5 and an empty
\* history: the state of a newly created engine but for lastUpdate, which
\* holds the time of the reset.
C14_ResetRestoresDefaults ==
    [][ResetStep =>
          /\ currentState'.facialEmotion = NULL
          /\ currentState'.voiceEmotion = NULL
          /\ currentState'.textEmotion = NULL
          /\ currentState'.sessionDuration = 0
          /\ currentState'.mergedEmotion = "neutral"
          /\ currentState'.confidence = Half
          /\ currentState'.emotionHistory = <<>>
          /\ currentState'.lastUpdate = now
          /\ [currentState' EXCEPT !.lastUpdate = 0] = InitialState(0)
      ]_vars

\* a reset has just run, after two operations that read the clock
C14_Witness ==
    /\ ~ChannelsPresent(currentState)
    /\ currentState.lastUpdate = 3
    /\ now = 4
    /\ currentState.sessionDuration = 0
    /\ currentState.emotionHistory = <<>>

\* (tone, verbosity, detail, breakNeeded, encouragement) of a guidelines object
GuidelinesCore(g) == <<g.tone, g.verbosity, g.detail, g.breakNeeded, g.encouragement>>

\* the table of guidelines by merged emotion
ExpectedGuidelines(label) ==
    IF label \in {"happy", "focused"}
    THEN <<"energetic", "normal", "comprehensive", FALSE, TRUE>>
    ELSE IF label \in {"stressed", "anxious"}
    THEN <<"calm", "concise", "simplified", TRUE, TRUE>>
    ELSE IF label \in {"tired", "sad"}
    THEN <<"supportive", "minimal", "simplified", TRUE, TRUE>>
    ELSE IF label = "confused"
    THEN <<"patient", "detailed", "step-by-step", FALSE, TRUE>>
    ELSE <<"professional", "normal", "comprehensive", FALSE, FALSE>>

GuidelinesFollowTable ==
    GuidelinesCore(ResponseGuidelinesFor(currentState.mergedEmotion))
        = ExpectedGuidelines(currentState.mergedEmotion)

GuidelinesCallIsPure ==
    (output' # output /\ output'.op = "getResponseGuidelines")
        => /\ currentState' = currentState
           /\ GuidelinesCore(output'.value)
                 = ExpectedGuidelines(currentState.mergedEmotion)

\* C15: in every reachable state the guidelines are those of the table row
\* of the merged emotion (neutral, calm and every label outside the four
\* other rows get the professional row), and a call of getResponseGuidelines
\* returns that row and leaves the fusion state as it was.
C15_GuidelinesByMergedEmotion ==
    []GuidelinesFollowTable /\ [][GuidelinesCallIsPure]_vars

\* the merged emotion is calm, after another merge, and the call has
\* returned the professional row
C15_Witness ==
    /\ currentState.mergedEmotion = "calm"
    /\ Len(currentState.emotionHistory) = 2
    /\ currentState.emotionHistory[1].emotion = "bored"
    /\ output # NULL
    /\ output.op = "getResponseGuidelines"
    /\ output.value = GuidelinesProfessional
    /\ now = 3

\* the labels that have a palette
PaletteLabels ==
    {"happy", "focused", "neutral", "calm", "stressed", "tired", "sad",
     "confused", "anxious"}

\* palette p is the one of label e: the entry of e for a label with a
\* palette, unlike the entry of every other label, and the entry of neutral
\* for every other value
IsPaletteOf(p, e) ==
    /\ e \in PaletteLabels
          => /\ p = schemes[e]
             /\ \A l \in PaletteLabels \ {e} : p # schemes[l]
    /\ e \notin PaletteLabels => p = schemes["neutral"]

SchemeFollowsTable ==
    /\ DOMAIN schemes = PaletteLabels
    /\ IsPaletteOf(EmotionColorSchemeFor(currentState.mergedEmotion),
                   currentState.mergedEmotion)

SchemeCallIsPure ==
    (output' # output /\ output'.op = "getEmotionColorScheme")
        => /\ currentState' = currentState
           /\ IsPaletteOf(output'.value, currentState.mergedEmotion)

\* C16: in every reachable state the colour scheme is the palette of the
\* merged emotion when that is one of the nine labels with a palette, each
\* palette being unlike the eight others, and the neutral palette for every
\* other merged emotion (surprised, or a label outside the vocabulary); a
\* call of getEmotionColorScheme returns it and leaves the fusion state as
\* it was.
C16_SchemeByMergedEmotion ==
    []SchemeFollowsTable /\ [][SchemeCallIsPure]_vars

\* the merged emotion is surprised and the call has returned the neutral
\* palette
C16_Witness ==
    /\ currentState.mergedEmotion = "surprised"
    /\ output # NULL
    /\ output.op = "getEmotionColorScheme"
    /\ output.value.primary = "#9CA3AF"
    /\ output.value = schemes["neutral"]

LabelsIn(window) == {window[i].emotion : i \in 1..Len(window)}

EntriesOf(window, label) == {i \in 1..Len(window) : window[i].emotion = label}

\* the sum of the decimals of the confidences of the entries of window at
\* the indices in set, in units of 1 / Scale
RECURSIVE SumConfidences(_, _)
SumConfidences(window, set) ==
    IF set = {} THEN 0
    ELSE LET i == CHOOSE j \in set : TRUE
         IN  window[i].confidence.val + SumConfidences(window, set \ {i})

\* x is the mean of the confidences of the entries of window at the indices
\* in set, as a decimal and to within the rounding of the doubles
IsMeanOf(x, window, set) ==
    /\ x.val * Cardinality(set) = SumConfidences(window, set)
    /\ WithinRounding(x)

StrictlyMostFrequent(window, label) ==
    \A other \in LabelsIn(window) \ {label} :
        Cardinality(EntriesOf(window, label)) > Cardinality(EntriesOf(window, other))

\* C17: when one label of the window occurs more often than every other
\* label, it is the smoothed label, and the smoothed confidence is the sum
\* of the confidences of that label's entries divided by their number, to
\* within the rounding of the doubles.
C17_MajorityAndItsMean ==
    \A label \in LabelsIn(emotionHistory) :
        StrictlyMostFrequent(emotionHistory, label) =>
            LET smoothed == GetSmoothedEmotion(emotionHistory, now)
            IN  /\ smoothed.emotion = label
                /\ IsMeanOf(smoothed.confidence, emotionHistory,
                            EntriesOf(emotionHistory, label))

\* happy at 0.8, tired at 0.6 and happy at 1.0: happy with confidence 0.9
C17_Witness ==
    /\ Len(emotionHistory) = 3
    /\ emotionHistory[1].emotion = "happy" /\ emotionHistory[1].confidence = Tenths(8)
    /\ emotionHistory[2].emotion = "tired" /\ emotionHistory[2].confidence = Tenths(6)
    /\ emotionHistory[3].emotion = "happy" /\ emotionHistory[3].confidence = One
    /\ GetSmoothedEmotion(emotionHistory, now).emotion = "happy"
    /\ GetSmoothedEmotion(emotionHistory, now).confidence = Tenths(9)

\* the result for an empty window, read at time t
EmptyWindowResult(t) ==
    [emotion |-> "neutral", confidence |-> Half,
     history |-> <<>>, lastUpdate |-> t]

EmptyWindowIsNeutral ==
    emotionHistory = <<>> =>
        GetSmoothedEmotion(emotionHistory, now) = EmptyWindowResult(now)

EmptyWindowCallIsNeutral ==
    (output' # output /\ output'.op = "getCurrentEmotion" /\ emotionHistory = <<>>)
        => /\ output'.value = EmptyWindowResult(now)
           /\ emotionHistory' = <<>>

\* C18: whenever the window is empty (nothing ingested yet, or emptied by
\* clearHistory or stopDetection) the smoothed result is neutral with
\* confidence 0.5 and an empty window, and a call of getCurrentEmotion
\* returns it.
C18_EmptyWindowDefault ==
    []EmptyWindowIsNeutral /\ [][EmptyWindowCallIsNeutral]_vars

\* getCurrentEmotion has just returned the default after detection was
\* started and stopped (a tick of it is still suspended) and an earlier
\* operation had read the clock
C18_Witness ==
    /\ emotionHistory = <<>>
    /\ ~isRunning /\ ~stream /\ ~detectionInterval
    /\ inFlight = 1
    /\ output # NULL
    /\ output.op = "getCurrentEmotion"
    /\ output.value = EmptyWindowResult(now - 1)
    /\ now >= 3

\* the largest probability of a raw distribution
MaxProbability(expressions) ==
    CHOOSE p \in {ValueOf(expressions[i]) : i \in 1..Len(expressions)} :
        \A i \in 1..Len(expressions) : ~Less(p, ValueOf(expressions[i]))

\* neutral when no category exceeds neutral's probability; otherwise the
\* first category, in the iteration order of the object, that has the
\* largest probability
FirstMaximal(expressions) ==
    LET maximal == {i \in 1..Len(expressions) :
                       ValueOf(expressions[i]) = MaxProbability(expressions)}
    IN  IF ScoreOf(expressions, "neutral") = MaxProbability(expressions)
        THEN "neutral"
        ELSE expressions[CHOOSE i \in maximal : \A j \in maximal : i <= j].key

\* raw category -> canonical label
CanonicalOf(category) ==
    IF category = "happy" THEN "happy"
    ELSE IF category = "sad" THEN "tired"
    ELSE IF category \in {"angry", "fearful"} THEN "stressed"
    ELSE IF category = "surprised" THEN "focused"
    ELSE "neutral"

IngestedAsClaimed(entry) ==
    /\ entry.emotion = CanonicalOf(FirstMaximal(entry.expressions))
    /\ entry.confidence = MaxProbability(entry.expressions)
    /\ (FirstMaximal(entry.expressions) = "neutral")
          = (\A i \in 1..Len(entry.expressions) :
                ~Less(ScoreOf(entry.expressions, "neutral"),
                      ValueOf(entry.expressions[i])))

\* C19: every entry of the window carries the canonical label of the first
\* raw category, in iteration order, among those of largest probability
\* (neutral exactly when no category exceeds neutral's probability), under
\* happy->happy, sad->tired, angry->stressed, fearful->stressed,
\* surprised->focused, neutral and disgusted->neutral; and it carries that
\* largest probability as its confidence.
C19_IngestMapsDominantCategory ==
    \A i \in 1..Len(emotionHistory) : IngestedAsClaimed(emotionHistory[i])

\* sad and angry tie at 0.5: the entry is tired (sad comes first) at 0.5
C19_Witness ==
    /\ Len(emotionHistory) = 1
    /\ emotionHistory[1].expressions = TwoCategories("sad", 5, "angry", 5)
    /\ emotionHistory[1].emotion = "tired"
    /\ emotionHistory[1].confidence = Tenths(5)

\* the labels in the order in which the recompute meets them: facial, voice,
\* text, then the tired bucket of the bias
EncounterOrder(st) ==
    (IF st.facialEmotion # NULL THEN <<st.facialEmotion.emotion>> ELSE <<>>)
    \o (IF st.voiceEmotion # NULL THEN <<st.voiceEmotion.emotion>> ELSE <<>>)
    \o (IF st.textEmotion # NULL THEN <<st.textEmotion.emotion>> ELSE <<>>)
    \o <<"tired">>

\* the labels whose total in totals is a number
NumericTotals(totals) ==
    {totals[i].key : i \in {j \in 1..Len(totals) : "val" \in DOMAIN totals[j]}}

\* the labels that hold the largest total
LargestTotals(totals) ==
    {l \in NumericTotals(totals) :
        \A other \in NumericTotals(totals) :
            ~Less(ScoreOf(totals, l), ScoreOf(totals, other))}

\* the first label of order that is one of labels
FirstAmong(order, labels) ==
    order[CHOOSE i \in 1..Len(order) :
              /\ order[i] \in labels
              /\ \A j \in 1..(i - 1) : order[j] \notin labels]

VoiceAndTextAgainstFacial(st) ==
    /\ AllPresent(st)
    /\ st.voiceEmotion.emotion = st.textEmotion.emotion
    /\ st.voiceEmotion.emotion # st.facialEmotion.emotion
    /\ st.sessionDuration <= 2700

\* C20: with a channel present the merged label is the first label, in the
\* order facial, voice, text, tired bucket, among those that hold the
\* largest post-bias total (a later label needs a strictly larger total);
\* with all three channels present, voice and text agreeing against facial,
\* 0.5 against 0.3 + 0.2, and a duration of at most 2700 s, the two totals
\* are equal and it is the facial label with confidence 0.5.
C20_TieKeepsFirstLabel ==
    /\ ChannelsPresent(currentState) =>
          currentState.mergedEmotion =
              FirstAmong(EncounterOrder(currentState),
                         LargestTotals(PostBiasScores(currentState)))
    /\ VoiceAndTextAgainstFacial(currentState) =>
          /\ ScoreOf(PostBiasScores(currentState), currentState.facialEmotion.emotion)
                = ScoreOf(PostBiasScores(currentState), currentState.voiceEmotion.emotion)
          /\ currentState.mergedEmotion = currentState.facialEmotion.emotion
          /\ currentState.confidence = Half

\* facial stressed against voice and text happy, 0.5 each, at 2700 s: the
\* facial label, met first, is the merged label
C20_Witness ==
    /\ AllPresent(currentState)
    /\ currentState.facialEmotion.emotion = "stressed"
    /\ currentState.voiceEmotion.emotion = "happy"
    /\ currentState.textEmotion.emotion = "happy"
    /\ currentState.sessionDuration = 2700
    /\ Cardinality(LargestTotals(PostBiasScores(currentState))) = 2
    /\ currentState.mergedEmotion = "stressed"
    /\ currentState.confidence = Half

\* the labels of the window that occur most often
MostFrequent(window) ==
    {l \in LabelsIn(window) :
        \A other \in LabelsIn(window) :
            Cardinality(EntriesOf(window, other)) <= Cardinality(EntriesOf(window, l))}

\* the index of the oldest entry of window that carries label
FirstEntryOf(window, label) ==
    CHOOSE i \in EntriesOf(window, label) : \A j \in EntriesOf(window, label) : i <= j

\* C21: when several labels of the window share the largest count, the
\* smoothed label is the one of them whose first entry is the oldest, and
\* the smoothed confidence is the sum of the confidences of that label's
\* entries divided by their number, to within the rounding of the doubles.
C21_TieKeepsOldestLabel ==
    LET tied == MostFrequent(emotionHistory)
        smoothed == GetSmoothedEmotion(emotionHistory, now)
    IN  Cardinality(tied) >= 2 =>
            /\ smoothed.emotion \in tied
            /\ \A l \in tied :
                  FirstEntryOf(emotionHistory, smoothed.emotion)
                      <= FirstEntryOf(emotionHistory, l)
            /\ IsMeanOf(smoothed.confidence, emotionHistory,
                        EntriesOf(emotionHistory, smoothed.emotion))

\* tired at 0.6, happy at 0.8, happy at 1.0, tired at 0.6: two each, and
\* tired, seen first, is returned with confidence 0.6
C21_Witness ==
    /\ Len(emotionHistory) = 4
    /\ emotionHistory[1].emotion = "tired"
    /\ emotionHistory[2].emotion = "happy" /\ emotionHistory[2].confidence = Tenths(8)
    /\ emotionHistory[3].emotion = "happy" /\ emotionHistory[3].confidence = One
    /\ emotionHistory[4].emotion = "tired"
    /\ GetSmoothedEmotion(emotionHistory, now).emotion = "tired"
    /\ GetSmoothedEmotion(emotionHistory, now).confidence = Tenths(6)

StoppedWindowIsEmpty == ~isRunning => emotionHistory = <<>>

NoCallbackWhileStopped ==
    (~isRunning /\ ~isRunning')
        => ~(/\ output' # output
             /\ output'.op = "onEmotionDetected"
             /\ output'.value.lastUpdate = now)

\* C22 as stated: while detection is stopped (isRunning is false: never
\* started, or stopped and not started again) the window is empty and stays
\* empty and no signal is handed to onEmotionDetected.
C22_AsStated ==
    []StoppedWindowIsEmpty /\ [][NoCallbackWhileStopped]_vars

\* output holds, before and after the step, one and the same signal
SameSignalHeld ==
    /\ output # NULL
    /\ output.op \in {"getCurrentEmotion", "onEmotionDetected"}
    /\ output'.op = output.op
    /\ output'.value.lastUpdate = output.value.lastUpdate

\* C23 as stated: a signal that a consumer holds and the detector's window
\* are independent: no step changes both, so later ingests and clearHistory
\* leave the signal (window, label, confidence) as it was handed over, and
\* what its holder does to it leaves the detector's window as it was.
C23_AsStated ==
    [][SameSignalHeld => (output' = output \/ emotionHistory' = emotionHistory)]_vars

DetectorStopped ==
    /\ ~isRunning
    /\ ~detectionInterval
    /\ timers = 0
    /\ ~stream

\* the component is unmounted while its isRunning is true and the detector
\* runs: detection was started by it and not stopped since
UnmountWhileRunning ==
    mounted /\ ~mounted' /\ webcamIsRunning /\ isRunning

\* C24 as stated: when the WebcamCapture component is unmounted while
\* detection is running, the detector is stopped after the unmount: it is
\* not running, its sampling interval is cleared and it holds no camera
\* stream.
C24_AsStated == [][UnmountWhileRunning => DetectorStopped']_vars

\* C25: with a channel present the merged label is the label of a present
\* channel: the fatigue bias, at most 0.25, makes tired the merged label only
\* when a present channel reports tired, and the neutral default wins only
\* when a present channel reports neutral.
C25_MergedIsPresentLabel ==
    LET normalized == NormalizedScores(currentState)
        biased == PostBiasScores(currentState)
    IN  ChannelsPresent(currentState) =>
            /\ currentState.mergedEmotion \in LabelsPresent(currentState)
            /\ ScoreOf(biased, "tired").val - ScoreOf(normalized, "tired").val
                   <= Scale \div 4
            /\ currentState.mergedEmotion = "tired"
                   => "tired" \in LabelsPresent(currentState)
            /\ currentState.mergedEmotion = "neutral"
                   => "neutral" \in LabelsPresent(currentState)

\* three channels with three labels, none of them tired, above both
\* thresholds: the tired bucket holds the bias alone, 0.25, and the facial
\* label stays
C25_Witness ==
    /\ AllPresent(currentState)
    /\ Cardinality(LabelsPresent(currentState)) = 3
    /\ "tired" \notin LabelsPresent(currentState)
    /\ currentState.sessionDuration > FatigueThreshold2
    /\ ScoreOf(PostBiasScores(currentState), "tired").val = Scale \div 4
    /\ currentState.mergedEmotion = currentState.facialEmotion.emotion

\* C26 as stated: the merged confidence is at least 0.5 in every state: the
\* normalized total of the winning label is never below 0.5, whichever
\* channels are present.
C26_AsStated ==
    /\ ~Less(currentState.confidence, Half)
    /\ ChannelsPresent(currentState) =>
           ~Less(ScoreOf(NormalizedScores(currentState), currentState.mergedEmotion),
                 Half)

\* C26 amended: the merged confidence is at least 0.5 in every state: the
\* total of the winning label after the fatigue bias, which is what the
\* confidence is taken from, is never below 0.5, whichever channels are
\* present.
C26_ConfidenceAtLeastHalf ==
    /\ ~Less(currentState.confidence, Half)
    /\ ChannelsPresent(currentState) =>
           ~Less(ScoreOf(PostBiasScores(currentState), currentState.mergedEmotion),
                 Half)

\* tired, reported by the voice alone, wins through the bias over a facial
\* label at 0.5: its normalized total is 0.3 and the confidence is 0.55
C26_Witness ==
    /\ AllPresent(currentState)
    /\ Cardinality(LabelsPresent(currentState)) = 3
    /\ currentState.voiceEmotion.emotion = "tired"
    /\ currentState.sessionDuration > FatigueThreshold2
    /\ currentState.mergedEmotion = "tired"
    /\ ScoreOf(NormalizedScores(currentState), "tired").val = (3 * Scale) \div 10
    /\ currentState.confidence.val = (55 * Scale) \div 100

====
